---- MODULE Spec2Model ----
(***************************************************************************)
(* A model of open-meteo-cast: the row-wise statistics of                  *)
(* statistics.py as dispatched by WeatherModel.calculate_statistics, the   *)
(* multi-model merge and window trim of Ensemble, and the rounding policy  *)
(* of formatting.py.                                                       *)
(*                                                                         *)
(* Numbers.  A float is modelled as an exact rational <<n, d>> with d > 0  *)
(* in lowest terms; NaN / <NA> (a missing value) is <<0, 0>>.  Arithmetic  *)
(* propagates NaN and every comparison with NaN is false, as in IEEE 754.  *)
(* Binary rounding error of floats is not modelled.                        *)
(*                                                                         *)
(* Tables.  A DataFrame is a record                                        *)
(*   [tz, index, columns, rows]                                            *)
(* index: the sequence of row labels (hours since an epoch), tz: the       *)
(* timezone the index carries ("none" for an index that is no             *)
(* DatetimeIndex), columns: the sequence of column names, rows: one        *)
(* sequence of cells per index entry, aligned with columns.                *)
(***************************************************************************)
EXTENDS Integers, Sequences, FiniteSets, TLC

VARIABLES
    data,        \* WeatherModel.data: sequence of [variable, df] in dict order
    statistics,  \* WeatherModel.statistics: function variable -> statistics table
                 \* (for the export, the entries [variable, df] in dict order)
    metadata,    \* WeatherModel.metadata
    cursor,      \* position of the loop of calculate_statistics in data
    raised,      \* TRUE once an exception left a method of the WeatherModel
    models,      \* Ensemble.models: sequence of the models' statistics dicts
    config,      \* [timezone, forecast_hours] of the application configuration
    now,         \* the wall clock read by Ensemble.__init__
    stats_df,    \* Ensemble.stats_df
    built,       \* TRUE once Ensemble.__init__ has returned
    called,      \* the export methods that have been called
    written,     \* what the exports have written: [sink, table]
    logged,      \* the records the exports have passed to logging
    fmt_in,      \* the table handed to format_statistics_dataframe
    fmt_out,     \* the table it returned
    formatted,   \* TRUE once format_statistics_dataframe has returned
    last_run_file,  \* the content of last_run.json
    record0,     \* the content of last_run.json before the first call
    calls,       \* per pipeline run, its call of check_if_model_run_is_new
    db,          \* the committed content of forecasts.db
    clock,       \* datetime.now(), in units of ten minutes
    purge,       \* the call of purge_old_runs that has returned, if any:
                 \* its argument and the number of old runs it reported
    session,     \* per process that uses forecasts.db, its connection: the
                 \* tables it handles, its uncommitted view, what it loaded
    wms          \* the WeatherModel objects constructed so far, in order

vars == <<data, statistics, metadata, cursor, raised, models, config, now, stats_df,
          built, called, written, logged, fmt_in, fmt_out, formatted,
          last_run_file, record0, calls, db, clock, purge, session, wms>>

statsVars == <<data, statistics, metadata, cursor, raised>>
exportVars == <<called, written, logged>>
ensembleVars == <<models, config, now, stats_df, built, called, written, logged>>
formatVars == <<fmt_in, fmt_out, formatted>>
recordVars == <<last_run_file, record0, calls>>
sessionVars == <<session, wms>>
dbVars == <<db, clock, purge, sessionVars>>
persistVars == <<recordVars, dbVars>>

----------------------------------------------------------------------------
(* Rationals *)

NaN == <<0, 0>>

IsNaN(x) == x[2] = 0

Abs(n) == IF n < 0 THEN -n ELSE n

RECURSIVE GCD(_, _)
GCD(a, b) == IF b = 0 THEN a ELSE GCD(b, a % b)

\* lowest terms, positive denominator
Norm(x) ==
    IF x[2] = 0 THEN NaN
    ELSE LET s == IF x[2] < 0 THEN -1 ELSE 1
             g == GCD(Abs(x[1]), Abs(x[2]))
         IN  <<(s * x[1]) \div g, (s * x[2]) \div g>>

R(n) == <<n, 1>>

Q(n, d) == Norm(<<n, d>>)

Add(x, y) ==
    IF IsNaN(x) \/ IsNaN(y) THEN NaN
    ELSE Norm(<<x[1] * y[2] + y[1] * x[2], x[2] * y[2]>>)

Sub(x, y) ==
    IF IsNaN(x) \/ IsNaN(y) THEN NaN
    ELSE Norm(<<x[1] * y[2] - y[1] * x[2], x[2] * y[2]>>)

Mul(x, y) ==
    IF IsNaN(x) \/ IsNaN(y) THEN NaN
    ELSE Norm(<<x[1] * y[1], x[2] * y[2]>>)

\* y is a non-zero rational
Div(x, y) ==
    IF IsNaN(x) \/ IsNaN(y) THEN NaN
    ELSE Norm(<<x[1] * y[2], x[2] * y[1]>>)

Lt(x, y) == ~IsNaN(x) /\ ~IsNaN(y) /\ x[1] * y[2] < y[1] * x[2]

Leq(x, y) == ~IsNaN(x) /\ ~IsNaN(y) /\ x[1] * y[2] <= y[1] * x[2]

Gt(x, y) == Lt(y, x)

\* the integer floor of a rational (x is not NaN)
Floor(x) == x[1] \div x[2]

Ceil(x) == -((-x[1]) \div x[2])

\* x % m with the sign of the divisor m > 0 (numpy / Python semantics)
Mod(x, m) == Sub(x, Mul(m, R(Floor(Div(x, m)))))

\* round half to even to an integer, as numpy.round does
RoundHalfEven(x) ==
    LET f == Floor(x)
        twice == Sub(Mul(R(2), x), R(2 * f))   \* 2 * (x - f), in [0, 2)
    IN  IF Lt(twice, R(1)) THEN f
        ELSE IF Gt(twice, R(1)) THEN f + 1
        ELSE IF f % 2 = 0 THEN f ELSE f + 1

----------------------------------------------------------------------------
(* Sequences *)

RECURSIVE SumSeq(_)
SumSeq(s) == IF s = <<>> THEN R(0) ELSE Add(Head(s), SumSeq(Tail(s)))

\* the cells of a row that hold a value (skipna)
DropNaN(row) == SelectSeq(row, LAMBDA x : ~IsNaN(x))

RECURSIVE Insert(_, _)
Insert(x, s) ==
    IF s = <<>> THEN <<x>>
    ELSE IF Leq(x, Head(s)) THEN <<x>> \o s
    ELSE <<Head(s)>> \o Insert(x, Tail(s))

RECURSIVE SortAsc(_)
SortAsc(s) == IF s = <<>> THEN <<>> ELSE Insert(Head(s), SortAsc(Tail(s)))

\* Series.mean(): the mean of the cells that hold a value, NaN if none does
Mean(row) ==
    LET v == DropNaN(row)
    IN  IF v = <<>> THEN NaN ELSE Div(SumSeq(v), R(Len(v)))

\* the mean over a row of booleans: the fraction of TRUE cells
BoolMean(bools) ==
    Q(Cardinality({i \in 1..Len(bools) : bools[i]}), Len(bools))

----------------------------------------------------------------------------
(* DataFrames *)

\* DataFrame.empty: no rows or no columns
Empty(df) == Len(df.index) = 0 \/ Len(df.columns) = 0

\* pd.DataFrame(columns=cols) and pd.DataFrame(): no rows, a plain Index
EmptyFrame(cols) == [tz |-> "none", index |-> <<>>, columns |-> cols, rows |-> <<>>]

\* a dict value of None
None == [none |-> TRUE]

IsNone(df) == "none" \in DOMAIN df

\* the marker of a call that raised instead of returning
Raise(e) == [raised |-> e]

Raises(r) == "raised" \in DOMAIN r

----------------------------------------------------------------------------
(* statistics.py *)

\* quantile without the interpolation between order statistics
quantile_lower(row, qn) ==
    LET v == SortAsc(DropNaN(row))
        n == Len(v)
    IN  IF n = 0 THEN NaN ELSE v[(qn * (n - 1)) \div 10 + 1]

\* Series.quantile(q) with q = qn / 10: linear interpolation between the
\* order statistics of the values present, at rank q * (n - 1)
quantile(row, qn) ==
    LET v == SortAsc(DropNaN(row))
        n == Len(v)
        lo == (qn * (n - 1)) \div 10
        frac == Q((qn * (n - 1)) % 10, 10)
    IN  IF n = 0 THEN NaN
        ELSE IF lo + 1 >= n THEN v[n]
        ELSE Add(v[lo + 1], Mul(frac, Sub(v[lo + 2], v[lo + 1])))

\* Series.median(): the middle value present, or the mean of the two middle
median(row) ==
    LET v == SortAsc(DropNaN(row))
        n == Len(v)
    IN  IF n = 0 THEN NaN
        ELSE IF n % 2 = 1 THEN v[(n + 1) \div 2]
        ELSE Div(Add(v[n \div 2], v[n \div 2 + 1]), R(2))

\* the table pd.DataFrame({...}, index=df.index) of one cell list per row
StatisticsFrame(df, cols, rows) ==
    [tz |-> df.tz, index |-> df.index, columns |-> cols, rows |-> rows]

PercentileColumns == <<"p10", "median", "p90">>

\* a member column of dtype object: some cell holds text (a one-element tuple)
HasText(df) ==
    \E r \in 1..Len(df.rows) : \E c \in 1..Len(df.rows[r]) : Len(df.rows[r][c]) = 1

calculate_percentiles_swapped(df) ==
    IF Empty(df) THEN EmptyFrame(PercentileColumns)
    ELSE IF HasText(df) THEN Raise("TypeError")
    ELSE StatisticsFrame(df, PercentileColumns,
             [r \in 1..Len(df.rows) |->
                 <<quantile(df.rows[r], 9), median(df.rows[r]), quantile(df.rows[r], 1)>>])

\* row.quantile raises TypeError on a row that mixes numbers and text
calculate_percentiles(df) ==
    IF Empty(df) THEN EmptyFrame(PercentileColumns)
    ELSE IF HasText(df) THEN Raise("TypeError")
    ELSE StatisticsFrame(df, PercentileColumns,
             [r \in 1..Len(df.rows) |->
                 <<quantile(df.rows[r], 1), median(df.rows[r]), quantile(df.rows[r], 9)>>])

PrecipitationColumns == <<"probability", "conditional_average">>

\* (df > 0).mean(axis=1): NaN > 0 is False and counts as a member
probability(row) == BoolMean([c \in 1..Len(row) |-> Gt(row[c], R(0))])

\* conditional_average without fillna(0)
conditional_average_nofill(row) ==
    Mean([c \in 1..Len(row) |-> IF Gt(row[c], R(0)) THEN row[c] ELSE NaN])

\* df[df > 0].mean(axis=1).fillna(0)
conditional_average(row) ==
    LET m == Mean([c \in 1..Len(row) |-> IF Gt(row[c], R(0)) THEN row[c] ELSE NaN])
    IN  IF IsNaN(m) THEN R(0) ELSE m

calculate_precipitation_statistics(df) ==
    IF Empty(df) THEN EmptyFrame(PrecipitationColumns)
    ELSE StatisticsFrame(df, PrecipitationColumns,
             [r \in 1..Len(df.rows) |->
                 <<probability(df.rows[r]), conditional_average(df.rows[r])>>])

OctaColumns ==
    <<"octa_0_prob", "octa_1_prob", "octa_2_prob", "octa_3_prob", "octa_4_prob",
      "octa_5_prob", "octa_6_prob", "octa_7_prob", "octa_8_prob">>

\* octa_prob with <NA> members counted in the denominator
octa_prob_countna(row, octa) ==
    BoolMean([c \in 1..Len(row) |-> row[c] = R(octa)])

\* octa_prob with the members of a higher octa counted as well
octa_prob_cumulative(row, octa) ==
    LET v == DropNaN(row)
    IN  IF v = <<>> THEN NaN
        ELSE BoolMean([c \in 1..Len(v) |-> Leq(R(octa), v[c])])

\* (df == octa).mean(axis=1) on the nullable Int64 table calculate_statistics
\* passes: a comparison with <NA> is <NA> and the mean skips it
octa_prob(row, octa) ==
    LET v == DropNaN(row)
    IN  IF v = <<>> THEN NaN
        ELSE BoolMean([c \in 1..Len(v) |-> v[c] = R(octa)])

calculate_octa_probabilities(df) ==
    IF Empty(df) THEN EmptyFrame(<<>>)
    ELSE StatisticsFrame(df, OctaColumns,
             [r \in 1..Len(df.rows) |-> [k \in 1..9 |-> octa_prob(df.rows[r], k - 1)]])

octant_labels == <<"N", "NE", "E", "SE", "S", "SW", "W", "NW">>

WindColumns == [i \in 1..8 |-> octant_labels[i] \o "_prob"]

\* octants_numeric without the shift by half a sector
octants_numeric_unshifted(deg) == Floor(Div(Mod(deg, R(360)), R(45)))

\* octants_numeric without the wrap at 360
octants_numeric_nomod(deg) == Floor(Div(Add(deg, Q(45, 2)), R(45)))

\* np.floor(((deg + 22.5) % 360) / 45)
octants_numeric(deg) == Floor(Div(Mod(Add(deg, Q(45, 2)), R(360)), R(45)))

\* (octants_numeric == i).mean(axis=1)
octant_prob(row, i) ==
    BoolMean([c \in 1..Len(row) |-> octants_numeric(row[c]) = i])

\* .astype(int) raises on a frame that holds a NaN
calculate_wind_direction_probabilities(df) ==
    IF Empty(df) THEN EmptyFrame(<<>>)
    ELSE IF \E r \in 1..Len(df.rows) : \E c \in 1..Len(df.rows[r]) : IsNaN(df.rows[r][c])
    THEN Raise("IntCastingNaNError")
    ELSE StatisticsFrame(df, WindColumns,
             [r \in 1..Len(df.rows) |-> [i \in 1..8 |-> octant_prob(df.rows[r], i - 1)]])

fog_codes == {10, 11, 12, 28, 40, 41, 42, 43, 44, 45, 46, 47, 48, 49}
storm_codes == {13, 17, 29, 95, 96, 98}
severe_storm_codes == {18, 19, 97, 99}

WeatherCodeColumns == <<"fog_prob", "storm_prob", "severe_storm_prob">>

\* isin_prob over the members that report a code only
isin_prob_skipna(row, codes) ==
    LET v == DropNaN(row)
    IN  IF v = <<>> THEN NaN
        ELSE BoolMean([c \in 1..Len(v) |-> \E code \in codes : v[c] = R(code)])

\* df.isin(codes).mean(axis=1): NaN is in no list and counts as a member
isin_prob(row, codes) ==
    BoolMean([c \in 1..Len(row) |-> \E code \in codes : row[c] = R(code)])

calculate_weather_code_probabilities(df) ==
    IF Empty(df) THEN EmptyFrame(WeatherCodeColumns)
    ELSE StatisticsFrame(df, WeatherCodeColumns,
             [r \in 1..Len(df.rows) |->
                 <<isin_prob(df.rows[r], fog_codes), isin_prob(df.rows[r], storm_codes),
                   isin_prob(df.rows[r], severe_storm_codes)>>])

----------------------------------------------------------------------------
(* WeatherModel.calculate_statistics *)

\* (x / 100 * 8).round() of one cell; NaN becomes <NA>
to_octa(x) ==
    IF IsNaN(x) THEN NaN ELSE R(RoundHalfEven(Mul(Div(x, R(100)), R(8))))

\* (data_df / 100 * 8).round().astype('Int64')
to_octas(df) ==
    [df EXCEPT !.rows = [r \in 1..Len(df.rows) |->
        [c \in 1..Len(df.rows[r]) |-> to_octa(df.rows[r][c])]]]

\* the statistic function the loop body chooses for a variable
statistics_of(variable, data_df) ==
    IF variable = "precipitation" \/ variable = "snowfall"
    THEN calculate_precipitation_statistics(data_df)
    ELSE IF variable = "cloud_cover"
    THEN calculate_octa_probabilities(to_octas(data_df))
    ELSE IF variable = "wind_direction_10m"
    THEN calculate_wind_direction_probabilities(data_df)
    ELSE IF variable = "weather_code"
    THEN calculate_weather_code_probabilities(data_df)
    ELSE calculate_percentiles(data_df)

\* one iteration of the loop over self.data.items() for a variable with data
StoreStatistics(variable, data_df) ==
    LET result == statistics_of(variable, data_df)
    IN  IF Raises(result)
        THEN /\ raised' = TRUE
             /\ UNCHANGED <<statistics, cursor>>
        ELSE /\ statistics' = (variable :> result) @@ statistics
             /\ cursor' = cursor + 1
             /\ UNCHANGED raised

InLoop == ~raised /\ cursor <= Len(data)

StatPrecipitation ==
    /\ InLoop
    /\ ~IsNone(data[cursor].df)
    /\ data[cursor].variable \in {"precipitation", "snowfall"}
    /\ StoreStatistics(data[cursor].variable, data[cursor].df)
    /\ UNCHANGED <<data, metadata, ensembleVars, persistVars, formatVars>>

StatCloudCover ==
    /\ InLoop
    /\ ~IsNone(data[cursor].df)
    /\ data[cursor].variable = "cloud_cover"
    /\ StoreStatistics(data[cursor].variable, data[cursor].df)
    /\ UNCHANGED <<data, metadata, ensembleVars, persistVars, formatVars>>

StatWindDirection ==
    /\ InLoop
    /\ ~IsNone(data[cursor].df)
    /\ data[cursor].variable = "wind_direction_10m"
    /\ StoreStatistics(data[cursor].variable, data[cursor].df)
    /\ UNCHANGED <<data, metadata, ensembleVars, persistVars, formatVars>>

StatWeatherCode ==
    /\ InLoop
    /\ ~IsNone(data[cursor].df)
    /\ data[cursor].variable = "weather_code"
    /\ StoreStatistics(data[cursor].variable, data[cursor].df)
    /\ UNCHANGED <<data, metadata, ensembleVars, persistVars, formatVars>>

StatPercentiles ==
    /\ InLoop
    /\ ~IsNone(data[cursor].df)
    /\ data[cursor].variable \notin
           {"precipitation", "snowfall", "cloud_cover", "wind_direction_10m", "weather_code"}
    /\ StoreStatistics(data[cursor].variable, data[cursor].df)
    /\ UNCHANGED <<data, metadata, ensembleVars, persistVars, formatVars>>

\* StatNoData with the missing table stored as the variable's statistics
StatNoData_stored ==
    /\ InLoop
    /\ IsNone(data[cursor].df)
    /\ statistics' = (data[cursor].variable :> None) @@ statistics
    /\ cursor' = cursor + 1
    /\ UNCHANGED <<data, metadata, raised, ensembleVars, persistVars, formatVars>>

\* data_df is None: a warning, no entry in self.statistics
StatNoData ==
    /\ InLoop
    /\ IsNone(data[cursor].df)
    /\ cursor' = cursor + 1
    /\ UNCHANGED <<data, statistics, metadata, raised, ensembleVars, persistVars, formatVars>>

----------------------------------------------------------------------------
(* The member tables the statistics are checked on *)

\* a table holds at most MaxCells cells (rows x members)
MaxCells == 5

\* the hourly UTC index and the member columns retrieve_model_variable builds
MemberFrame(rows, m) ==
    [tz |-> "UTC", index |-> [i \in 1..Len(rows) |-> i],
     columns |-> [i \in 1..m |-> i], rows |-> rows]

Shapes ==
    {s \in (0..MaxCells) \X (0..MaxCells) : s[1] * s[2] <= MaxCells}

\* the rows of the scenarios of spec section 8 and of tests/test_statistics.py
Row(ints) == [i \in 1..Len(ints) |-> R(ints[i])]

TestFrames(variable) ==
    IF variable = "temperature_2m"
    THEN {MemberFrame(<<Row(<<10, 12, 11, 13, 14>>), Row(<<20, 22, 21, 23, 24>>)>>, 5),
          MemberFrame(<<Row(<<10>>)>>, 1)}
    ELSE IF variable = "precipitation"
    THEN {MemberFrame(<<Row(<<0, 0, 0>>), Row(<<0, -1, 0>>), Row(<<10, 12, 11>>)>>, 3)}
    ELSE IF variable = "wind_direction_10m"
    THEN {MemberFrame(<<<<R(0), R(44), Q(224, 10), Q(225, 10), Q(3375, 10)>>>>, 5),
          MemberFrame(<<<<R(0), R(360), Q(224, 10), Q(225, 10), Q(3375, 10)>>,
                        <<R(45), R(44), Q(674, 10), Q(675, 10), Q(225, 10)>>>>, 5),
          MemberFrame(<<Row(<<190>>)>>, 1)}
    ELSE IF variable = "cloud_cover"
    THEN {MemberFrame(<<Row(<<0, 0, 0, 0, 0>>), Row(<<100, 88, 75, 63, 50>>)>>, 5)}
    ELSE {}

Values(variable) ==
    IF variable \in {"precipitation", "snowfall"} THEN {NaN, R(-1), R(0), Q(3, 2)}
    ELSE IF variable = "cloud_cover" THEN {NaN, Q(25, 4), R(45), R(100)}
    ELSE IF variable = "wind_direction_10m" THEN {NaN, Q(45, 2), Q(675, 2), R(360)}
    ELSE IF variable = "weather_code" THEN {NaN, R(3), R(45), R(95), R(99)}
    ELSE {NaN, R(10), R(11), R(14)}

Variables ==
    {"temperature_2m", "precipitation", "snowfall", "cloud_cover",
     "wind_direction_10m", "weather_code"}

\* self.data after retrieve_data, restricted to one variable
DataDict(variable, df) == <<[variable |-> variable, df |-> df]>>

EnsembleIdle ==
    /\ models = <<>>
    /\ config = [timezone |-> 0, forecast_hours |-> 0]
    /\ now = 0
    /\ stats_df = EmptyFrame(<<>>)
    /\ built = FALSE
    /\ called = {}
    /\ written = {}
    /\ logged = {}

FormatIdle ==
    /\ fmt_in = EmptyFrame(<<>>)
    /\ fmt_out = EmptyFrame(<<>>)
    /\ formatted = FALSE

StatsIdle ==
    /\ data = <<>>
    /\ statistics = [v \in {} |-> None]
    /\ metadata = None
    /\ cursor = 1
    /\ raised = FALSE

RecordIdle ==
    /\ last_run_file = [missing |-> TRUE]
    /\ record0 = [missing |-> TRUE]
    /\ calls = <<>>

\* forecasts.db after create_tables
EmptyDb ==
    [forecast_runs |-> <<>>, raw_forecast_data |-> <<>>, statistical_forecasts |-> <<>>]

SessionIdle ==
    /\ session = <<>>
    /\ wms = <<>>

DbIdle ==
    /\ db = EmptyDb
    /\ clock = 0
    /\ purge = <<>>
    /\ SessionIdle

PersistIdle ==
    /\ RecordIdle
    /\ DbIdle

InitStats ==
    /\ \/ \E v \in Variables, s \in Shapes :
              \E rows \in [1..s[1] -> [1..s[2] -> Values(v)]] :
                  data = DataDict(v, MemberFrame(rows, s[2]))
       \/ \E v \in Variables : \E df \in TestFrames(v) \cup {None} :
              data = DataDict(v, df)
    /\ statistics = [v \in {} |-> None]
    /\ metadata = None
    /\ cursor = 1
    /\ raised = FALSE
    /\ EnsembleIdle
    /\ FormatIdle
    /\ PersistIdle

NextStats ==
    \/ StatPrecipitation
    \/ StatCloudCover
    \/ StatWindDirection
    \/ StatWeatherCode
    \/ StatPercentiles
    \/ StatNoData

SpecStats == InitStats /\ [][NextStats]_vars

----------------------------------------------------------------------------
(* calculate_statistics over the whole of self.data *)

\* self.data holds at most MaxVariables variables
MaxVariables == 2

\* the table of tests/test_statistics.py with a text cell in a member column
NonNumericFrame ==
    [tz |-> "UTC", index |-> <<1>>, columns |-> <<1, 2>>, rows |-> <<<<R(10), <<"a">>>>>>]

\* what retrieve_model_variable may leave in self.data for a variable: None,
\* a one-member table, or one of the tables of the tests
VariableData(variable) ==
    {None} \cup {MemberFrame(<<<<x>>>>, 1) : x \in Values(variable)}
           \cup TestFrames(variable)
           \cup (IF variable = "temperature_2m" THEN {NonNumericFrame} ELSE {})

\* the dicts of n distinct variables, in insertion order
RECURSIVE DataDicts(_)
DataDicts(n) ==
    IF n = 0 THEN {<<>>}
    ELSE UNION {UNION {{Append(d, [variable |-> v, df |-> f]) : f \in VariableData(v)} :
                          v \in Variables \ {d[i].variable : i \in 1..Len(d)}} :
                   d \in DataDicts(n - 1)}

InitCalculate ==
    /\ \E n \in 1..MaxVariables : data \in DataDicts(n)
    /\ statistics = [v \in {} |-> None]
    /\ metadata = None
    /\ cursor = 1
    /\ raised = FALSE
    /\ EnsembleIdle
    /\ FormatIdle
    /\ PersistIdle

SpecCalculate == InitCalculate /\ [][NextStats]_vars

----------------------------------------------------------------------------
(* formatting.py *)

\* str.startswith, str.endswith and the substring test `part in col`
startswith(col, prefix) ==
    Len(col) >= Len(prefix) /\ SubSeq(col, 1, Len(prefix)) = prefix

endswith(col, suffix) ==
    Len(col) >= Len(suffix) /\ SubSeq(col, Len(col) - Len(suffix) + 1, Len(col)) = suffix

contains(col, part) ==
    \E i \in 1..(Len(col) - Len(part) + 1) : SubSeq(col, i, i + Len(part) - 1) = part

\* Series.round(decimals) with decimals = 0, 1, 2: half to even; NaN stays NaN
Pow10(decimals) == IF decimals = 0 THEN 1 ELSE IF decimals = 1 THEN 10 ELSE 100

\* rounding to the next multiple above x, also when x is a multiple itself
round_to_next(x, decimals) ==
    IF IsNaN(x) THEN NaN
    ELSE Q(Floor(Mul(x, R(Pow10(decimals)))) + 1, Pow10(decimals))

round(x, decimals) ==
    IF IsNaN(x) THEN NaN
    ELSE Q(RoundHalfEven(Mul(x, R(Pow10(decimals)))), Pow10(decimals))

\* np.ceil(x * 20) / 20
ceil_to_twentieth(x) ==
    IF IsNaN(x) THEN NaN ELSE Q(Ceil(Mul(x, R(20))), 20)

\* pd.api.types.is_numeric_dtype: every cell of the column is a number
\* (a text cell is a one-element tuple)
is_numeric_dtype(df, c) ==
    \A r \in 1..Len(df.rows) : Len(df.rows[r][c]) = 2

\* format_cell without the branch for the names that start with cloud_cover
format_cell_no_cloud_rule(col, x) ==
    IF contains(col, "prob") THEN round(x, 2) ELSE round(x, 1)

\* the branch taken for a numeric column called col, applied to one cell
format_cell(col, x) ==
    IF startswith(col, "cloud_cover")
    THEN IF contains(col, "prob") THEN round(x, 2) ELSE round(x, 0)
    ELSE IF contains(col, "prob") THEN round(x, 2)
    ELSE IF startswith(col, "precipitation") /\ endswith(col, "_probability")
    THEN ceil_to_twentieth(x)
    ELSE round(x, 1)

\* the copy of df with every numeric column rounded; df itself is not written
format_statistics_dataframe(df) ==
    [df EXCEPT !.rows = [r \in 1..Len(df.rows) |->
        [c \in 1..Len(df.columns) |->
            IF is_numeric_dtype(df, c)
            THEN format_cell(df.columns[c], df.rows[r][c])
            ELSE df.rows[r][c]]]]

\* the formatter writing into the table it was given instead of a copy
Format_in_place ==
    /\ ~formatted
    /\ fmt_out' = format_statistics_dataframe(fmt_in)
    /\ fmt_in' = fmt_out'
    /\ formatted' = TRUE
    /\ UNCHANGED <<statsVars, ensembleVars, persistVars>>

\* format_statistics_dataframe(df): df.copy() is formatted and returned
Format ==
    /\ ~formatted
    /\ fmt_out' = format_statistics_dataframe(fmt_in)
    /\ formatted' = TRUE
    /\ UNCHANGED <<fmt_in, statsVars, ensembleVars, persistVars>>

\* format_statistics_dataframe called with the table it returned
Reformat ==
    /\ formatted
    /\ fmt_in' = fmt_out
    /\ fmt_out' = format_statistics_dataframe(fmt_out)
    /\ UNCHANGED <<formatted, statsVars, ensembleVars, persistVars>>

\* a table handed to the formatter holds at most MaxFormatCells cells
MaxFormatCells == 2

FormatShapes ==
    {s \in (0..MaxFormatCells) \X (1..MaxFormatCells) : s[1] * s[2] <= MaxFormatCells}

\* columns {variable}_{statistic} of the wide statistics tables, a cloud
\* cover column that is not a probability and a column of text
FormatColumns ==
    {"temperature_2m_median", "precipitation_probability",
     "precipitation_conditional_average", "snowfall_probability",
     "cloud_cover_octa_1_prob", "wind_direction_10m_N_prob",
     "cloud_cover_mean", "model"}

\* the cells: numbers, a missing value, a text
FormatValues == {NaN, Q(1, 3), Q(1, 8), Q(1, 5), Q(2, 3), Q(149, 20), <<"gfs">>}

WideFrame(cols, rows) ==
    [tz |-> "UTC", index |-> [i \in 1..Len(rows) |-> i], columns |-> cols, rows |-> rows]

InitFormat ==
    /\ \E s \in FormatShapes :
         \E cols \in [1..s[2] -> FormatColumns] :
           \E rows \in [1..s[1] -> [1..s[2] -> FormatValues]] :
             /\ \A a, b \in 1..s[2] : cols[a] = cols[b] => a = b
             /\ fmt_in = WideFrame(cols, rows)
    /\ fmt_out = EmptyFrame(<<>>)
    /\ formatted = FALSE
    /\ StatsIdle
    /\ EnsembleIdle
    /\ PersistIdle

NextFormat ==
    \/ Format
    \/ Reformat

SpecFormat == InitFormat /\ [][NextFormat]_vars

----------------------------------------------------------------------------
(* ensemble.py *)

(***************************************************************************)
(* Time is counted in half hours since an epoch.  An index entry is the    *)
(* wall-clock time it shows in the timezone tz of its index; the instant   *)
(* it denotes is that time minus the zone's UTC offset.  A naive index     *)
(* ("naive") shows wall-clock times without a zone.                        *)
(***************************************************************************)
UtcOffset(tz) ==
    IF tz = "Asia/Kolkata" THEN 11
    ELSE IF tz = "America/Argentina/Buenos_Aires" THEN -6
    ELSE 0

IsDatetimeIndex(df) == df.tz # "none"

\* every index relabelled as UTC without converting its times
to_utc_relabelled(df) == [df EXCEPT !.tz = "UTC"]

\* index.tz_localize('UTC') of a naive index, index.tz_convert('UTC') otherwise
to_utc(df) ==
    IF df.tz = "naive" THEN [df EXCEPT !.tz = "UTC"]
    ELSE [df EXCEPT !.tz = "UTC",
                    !.index = [i \in 1..Len(df.index) |-> df.index[i] - UtcOffset(df.tz)]]

\* the statistics table as the loop body leaves it in model.statistics
normalized(df) ==
    IF IsNone(df) \/ ~IsDatetimeIndex(df) THEN df ELSE to_utc(df)

add_prefix(df, prefix) ==
    [df EXCEPT !.columns = [c \in 1..Len(df.columns) |-> prefix \o df.columns[c]]]

Range(seq) == {seq[i] : i \in 1..Len(seq)}

RECURSIVE SortedSeq(_)
SortedSeq(S) ==
    IF S = {} THEN <<>>
    ELSE LET least == CHOOSE x \in S : \A y \in S : x <= y
         IN  <<least>> \o SortedSeq(S \ {least})

\* the cells of the row labelled t, NaN in every column if there is none
RowAt(df, t) ==
    IF t \in Range(df.index)
    THEN df.rows[CHOOSE r \in 1..Len(df.index) : df.index[r] = t]
    ELSE [c \in 1..Len(df.columns) |-> NaN]

\* left.join(right, how='outer'): the sorted union of the labels, the columns
\* of both, NaN where a side has no row
join_outer(left, right) ==
    LET labels == SortedSeq(Range(left.index) \cup Range(right.index))
    IN  [tz |-> left.tz, index |-> labels, columns |-> left.columns \o right.columns,
         rows |-> [r \in 1..Len(labels) |-> RowAt(left, labels[r]) \o RowAt(right, labels[r])]]

\* the inner loop: the variables' prefixed tables joined one after the other
RECURSIVE join_all(_, _)
join_all(single_model_all_stats, items) ==
    IF items = <<>> THEN single_model_all_stats
    ELSE IF IsNone(Head(items).df) THEN join_all(single_model_all_stats, Tail(items))
    ELSE LET prefixed_stats_df ==
                 add_prefix(normalized(Head(items).df), Head(items).variable \o "_")
         IN  join_all(IF Empty(single_model_all_stats) THEN prefixed_stats_df
                      ELSE join_outer(single_model_all_stats, prefixed_stats_df),
                      Tail(items))

\* the wide tables of the models that contribute one
RECURSIVE all_models_stats_dfs(_)
all_models_stats_dfs(ms) ==
    IF ms = <<>> THEN <<>>
    ELSE LET single_model_all_stats == join_all(EmptyFrame(<<>>), Head(ms))
         IN  (IF Head(ms) # <<>> /\ ~Empty(single_model_all_stats)
              THEN <<single_model_all_stats>> ELSE <<>>)
             \o all_models_stats_dfs(Tail(ms))

\* the columns of pd.concat(frames): the union, in order of first appearance
RECURSIVE concat_columns(_)
concat_columns(frames) ==
    IF frames = <<>> THEN <<>>
    ELSE LET rest == concat_columns(SubSeq(frames, 1, Len(frames) - 1))
             last == frames[Len(frames)].columns
         IN  rest \o SelectSeq(last, LAMBDA c : c \notin Range(rest))

\* the cell of a row of frame df in the column called col of the stacked table
Reindexed(df, r, col) ==
    IF col \in Range(df.columns)
    THEN df.rows[r][CHOOSE c \in 1..Len(df.columns) : df.columns[c] = col]
    ELSE NaN

\* concat with the cells of a frame taken by position, not by column name
RECURSIVE concat_by_position(_, _)
concat_by_position(frames, columns) ==
    IF frames = <<>> THEN <<>>
    ELSE [r \in 1..Len(Head(frames).index) |->
             [label |-> Head(frames).index[r],
              cells |-> [c \in 1..Len(columns) |->
                            IF c <= Len(Head(frames).columns)
                            THEN Head(frames).rows[r][c] ELSE NaN]]]
         \o concat_by_position(Tail(frames), columns)

\* pd.concat(frames): the rows of all frames stacked, each as [label, cells]
RECURSIVE concat(_, _)
concat(frames, columns) ==
    IF frames = <<>> THEN <<>>
    ELSE [r \in 1..Len(Head(frames).index) |->
             [label |-> Head(frames).index[r],
              cells |-> [c \in 1..Len(columns) |-> Reindexed(Head(frames), r, columns[c])]]]
         \o concat(Tail(frames), columns)

\* the mean of a group's cells in one column, counting a missing cell as 0
group_mean_zero_filled(cells) ==
    IF cells = <<>> THEN NaN
    ELSE Div(SumSeq([i \in 1..Len(cells) |-> IF IsNaN(cells[i]) THEN R(0) ELSE cells[i]]),
             R(Len(cells)))

\* the mean of a group's cells in one column, rounded to a whole number
group_mean_rounded(cells) ==
    IF IsNaN(Mean(cells)) THEN NaN ELSE R(RoundHalfEven(Mean(cells)))

\* GroupBy.mean of one column of one group: the missing cells are skipped
group_mean(cells) == Mean(cells)

\* combined_stats.groupby(combined_stats.index).mean()
groupby_mean(combined, columns) ==
    LET labels == SortedSeq({combined[i].label : i \in 1..Len(combined)})
    IN  [tz |-> "UTC", index |-> labels, columns |-> columns,
         rows |-> [r \in 1..Len(labels) |->
             [c \in 1..Len(columns) |->
                 group_mean(LET group == SelectSeq(combined,
                                            LAMBDA row : row.label = labels[r])
                            IN  [i \in 1..Len(group) |-> group[i].cells[c]])]]]

_calculate_ensemble_stats(ms) ==
    LET frames == all_models_stats_dfs(ms)
    IN  IF frames = <<>> THEN EmptyFrame(<<>>)
        ELSE groupby_mean(concat(frames, concat_columns(frames)), concat_columns(frames))

\* pd.Timestamp.now(tz=timezone).floor('h'), as an instant
floor_hour(instant, tz) ==
    (((instant + UtcOffset(tz)) \div 2) * 2) - UtcOffset(tz)

\* the positions of the rows a label slice keeps, upper bound excluded
loc_rows_exclusive(df, start, end) ==
    SelectSeq([r \in 1..Len(df.index) |-> r],
              LAMBDA r : start <= df.index[r] /\ df.index[r] < end)

\* the positions of the rows df.loc[start:end] keeps: both bounds inclusive
loc_rows(df, start, end) ==
    SelectSeq([r \in 1..Len(df.index) |-> r],
              LAMBDA r : start <= df.index[r] /\ df.index[r] <= end)

\* df.loc[start:end] on the sorted UTC index of the ensemble table
loc(df, start, end) ==
    LET keep == loc_rows(df, start, end)
    IN  [df EXCEPT !.index = [i \in 1..Len(keep) |-> df.index[keep[i]]],
                   !.rows = [i \in 1..Len(keep) |-> df.rows[keep[i]]]]

\* the models' statistics after the loop has rewritten their indexes
normalized_models(ms) ==
    [k \in 1..Len(ms) |->
        [j \in 1..Len(ms[k]) |-> [ms[k][j] EXCEPT !.df = normalized(ms[k][j].df)]]]

\* Ensemble.__init__
EnsembleInit ==
    /\ ~built
    /\ LET start == floor_hour(now, config.timezone)
           forecast_end == start + 2 * config.forecast_hours
       IN  stats_df' = loc(_calculate_ensemble_stats(models), start, forecast_end)
    /\ models' = normalized_models(models)
    /\ built' = TRUE
    /\ UNCHANGED <<config, now, persistVars, exportVars, statsVars, formatVars>>

----------------------------------------------------------------------------
(* The models an Ensemble is built from *)

\* an Ensemble is built from at most MaxModels models
MaxModels == 2

Frame(tz, index, columns, rows) ==
    [tz |-> tz, index |-> index, columns |-> columns, rows |-> rows]

\* no entry for a variable in model.statistics
Absent == [absent |-> TRUE]

\* statistics tables of temperature_2m as calculate_percentiles and
\* load_statistics leave them: hourly rows, a row without any member value
\* at the end of a model's range, the zero-row table of an empty member table
TemperatureTables(tz) ==
    {Frame(tz, <<2, 4>>, PercentileColumns, <<<<R(1), R(2), R(3)>>, <<R(3), R(5), R(7)>>>>),
     Frame(tz, <<4, 6>>, PercentileColumns, <<<<R(1), R(2), R(3)>>, <<R(3), R(5), R(7)>>>>),
     Frame(tz, <<6, 8>>, PercentileColumns, <<<<R(1), R(2), R(3)>>, <<NaN, NaN, NaN>>>>),
     EmptyFrame(PercentileColumns),
     Absent}

\* statistics tables of precipitation, None, or no entry
PrecipitationTables(tz) ==
    {Frame(tz, <<4, 6>>, PrecipitationColumns, <<<<Q(1, 2), R(4)>>, <<R(0), R(0)>>>>),
     None,
     Absent}

\* model.statistics in dict order
StatisticsDict(temperature, precipitation) ==
    (IF temperature = Absent THEN <<>>
     ELSE <<[variable |-> "temperature_2m", df |-> temperature]>>)
    \o (IF precipitation = Absent THEN <<>>
        ELSE <<[variable |-> "precipitation", df |-> precipitation]>>)

\* tables whose index carries the zone Asia/Kolkata: the instants 4 and 6,
\* and 6 and 8, shown as local times
ZonedTemperatureTable ==
    Frame("Asia/Kolkata", <<15, 17>>, PercentileColumns,
          <<<<R(5), R(6), R(7)>>, <<R(1), R(2), R(3)>>>>)

ZonedPrecipitationTable ==
    Frame("Asia/Kolkata", <<17, 19>>, PrecipitationColumns,
          <<<<R(1), R(2)>>, <<Q(1, 4), R(1)>>>>)

\* the index of a model fresh from the API is UTC, of one loaded from the
\* database naive; a model handed over by another caller may carry a zone
ModelStatistics ==
    UNION {{StatisticsDict(t, p) : t \in TemperatureTables(tz), p \in PrecipitationTables(tz)} :
           tz \in {"UTC", "naive"}}
    \cup {StatisticsDict(t, p) : t \in {ZonedTemperatureTable, Absent},
                                p \in {ZonedPrecipitationTable, Absent}}

Timezones == {"UTC", "Asia/Kolkata", "America/Argentina/Buenos_Aires"}

\* the instants at which the Ensemble is constructed: on the hour and between
Clock == {2, 4, 5}

InitEnsemble ==
    /\ \E n \in 0..MaxModels : models \in [1..n -> ModelStatistics]
    /\ \E tz \in Timezones, hours \in {1, 2} :
         config = [timezone |-> tz, forecast_hours |-> hours]
    /\ now \in Clock
    /\ stats_df = EmptyFrame(<<>>)
    /\ built = FALSE
    /\ called = {}
    /\ written = {}
    /\ logged = {}
    /\ StatsIdle
    /\ FormatIdle
    /\ PersistIdle

NextEnsemble == EnsembleInit

SpecEnsemble == InitEnsemble /\ [][NextEnsemble]_vars

----------------------------------------------------------------------------
(* The exports of an Ensemble *)

\* index.tz_convert(tz): the same instants shown as local times of tz
tz_convert(df, tz) ==
    [df EXCEPT !.tz = tz,
               !.index = [i \in 1..Len(df.index) |->
                             df.index[i] - UtcOffset(df.tz) + UtcOffset(tz)]]

Log(level, message) == [level |-> level, message |-> message]

\* config.get('location', {}).get('timezone') of the config an export is
\* called with: the application's, or one that names no timezone ({})
ExportTimezones == {config.timezone, "none"}

\* to_csv without the check for an empty table: the file is written anyway
ToCsv_unguarded ==
    /\ built
    /\ "to_csv" \notin called
    /\ called' = called \cup {"to_csv"}
    /\ written' = written \cup
           {[sink |-> "csv", table |-> format_statistics_dataframe(stats_df)]}
    /\ logged' = logged \cup {Log("info", "Successfully exported ensemble statistics")}
    /\ UNCHANGED <<models, config, now, persistVars, stats_df, built, statsVars, formatVars>>

\* Ensemble.to_csv
ToCsv ==
    /\ built
    /\ "to_csv" \notin called
    /\ called' = called \cup {"to_csv"}
    /\ IF Empty(stats_df)
       THEN /\ logged' = logged \cup {Log("warning", "No ensemble statistics to export.")}
            /\ UNCHANGED written
       ELSE \E timezone \in ExportTimezones :
              LET formatted_df == format_statistics_dataframe(stats_df)
                  export_df == IF IsDatetimeIndex(formatted_df) /\ timezone # "none"
                               THEN tz_convert(formatted_df, timezone)
                               ELSE formatted_df
              IN  \/ /\ written' = written \cup {[sink |-> "csv", table |-> export_df]}
                     /\ logged' = logged \cup
                            {Log("info", "Successfully exported ensemble statistics")}
                  \/ /\ logged' = logged \cup
                            {Log("error", "Error exporting ensemble statistics")}
                     /\ UNCHANGED written
    /\ UNCHANGED <<models, config, now, persistVars, stats_df, built, statsVars, formatVars>>

\* Ensemble.save_to_db.  database.save_ensemble_run takes three arguments and
\* is called with four: the TypeError is caught by the except clause, which
\* rolls back and logs, so nothing is saved.
SaveToDb ==
    /\ built
    /\ "save_to_db" \notin called
    /\ called' = called \cup {"save_to_db"}
    /\ IF Empty(stats_df)
       THEN logged' = logged \cup
                {Log("warning", "No ensemble statistics to save to the database.")}
       ELSE logged' = logged \cup
                {Log("error", "Error saving ensemble statistics to the database")}
    /\ UNCHANGED <<models, config, now, persistVars, stats_df, built, written, statsVars, formatVars>>

\* the number of subplots generate_plots finds columns for is not zero
has_plots(df) ==
    \E c \in 1..Len(df.columns) :
        \/ endswith(df.columns[c], "_median")
        \/ df.columns[c] \in {"precipitation_probability",
                              "precipitation_conditional_average"}

\* Ensemble.plot_statistics, generate_plots included
PlotStatistics ==
    /\ built
    /\ "plot_statistics" \notin called
    /\ called' = called \cup {"plot_statistics"}
    /\ IF Empty(stats_df)
       THEN /\ logged' = logged \cup {Log("warning", "No ensemble statistics to plot.")}
            /\ UNCHANGED <<stats_df, written>>
       ELSE \E timezone \in ExportTimezones :
              /\ stats_df' = IF timezone # "none" THEN tz_convert(stats_df, timezone)
                             ELSE stats_df
              /\ IF ~has_plots(stats_df)
                 THEN /\ logged' = logged \cup
                             {Log("warning", "No relevant data columns found to generate any plots")}
                      /\ UNCHANGED written
                 ELSE \/ /\ written' = written \cup {[sink |-> "plot", table |-> stats_df']}
                         /\ logged' = logged \cup {Log("info", "Successfully exported plot")}
                      \/ /\ logged' = logged \cup {Log("error", "Error exporting plot")}
                         /\ UNCHANGED written
    /\ UNCHANGED <<models, config, now, persistVars, built, statsVars, formatVars>>

\* the statistics dicts of the models whose exports are followed: without
\* statistics, with an entry of None, with a zero-row table, with tables
ExportStatistics ==
    {<<>>,
     StatisticsDict(Absent, None),
     StatisticsDict(EmptyFrame(PercentileColumns), Absent),
     StatisticsDict(
         Frame("UTC", <<4, 6>>, PercentileColumns,
               <<<<R(1), R(2), R(3)>>, <<Q(7, 2), Q(21, 4), R(7)>>>>),
         Frame("UTC", <<4, 6>>, PrecipitationColumns, <<<<Q(1, 2), R(4)>>, <<R(0), R(0)>>>>)),
     StatisticsDict(
         Frame("naive", <<2, 4>>, PercentileColumns,
               <<<<R(1), R(2), R(3)>>, <<R(3), R(5), R(7)>>>>),
         Absent)}

InitExport ==
    /\ \E n \in 0..MaxModels : models \in [1..n -> ExportStatistics]
    /\ \E tz \in Timezones, hours \in {1, 2} :
         config = [timezone |-> tz, forecast_hours |-> hours]
    /\ now \in Clock
    /\ stats_df = EmptyFrame(<<>>)
    /\ built = FALSE
    /\ called = {}
    /\ written = {}
    /\ logged = {}
    /\ StatsIdle
    /\ FormatIdle
    /\ PersistIdle

NextExport ==
    \/ EnsembleInit
    \/ ToCsv
    \/ SaveToDb
    \/ PlotStatistics

SpecExport == InitExport /\ [][NextExport]_vars

----------------------------------------------------------------------------
(* WeatherModel.export_statistics_to_csv *)

\* the loop over self.statistics.items(): the prefixed tables joined one
\* after the other, the entries of None skipped
RECURSIVE all_stats_df(_, _)
all_stats_df(joined, items) ==
    IF items = <<>> THEN joined
    ELSE IF IsNone(Head(items).df) THEN all_stats_df(joined, Tail(items))
    ELSE LET prefixed_stats_df == add_prefix(Head(items).df, Head(items).variable \o "_")
         IN  all_stats_df(IF Empty(joined) THEN prefixed_stats_df
                          ELSE join_outer(joined, prefixed_stats_df),
                          Tail(items))

\* the warnings of the loop for the variables without statistics
NoStatisticsWarnings(items) ==
    {Log("warning", "No statistics to export for variable " \o items[i].variable) :
        i \in {x \in 1..Len(items) : IsNone(items[x].df)}}

\* metadata.get('last_run_initialisation_time') is a time
HasLastRun(md) == ~IsNone(md) /\ md.last_run_initialisation_time # <<>>

ExportStatisticsToCsv ==
    /\ ~raised
    /\ "export_statistics_to_csv" \notin called
    /\ called' = called \cup {"export_statistics_to_csv"}
    /\ IF statistics = <<>>
       THEN /\ logged' = logged \cup {Log("warning", "No statistics available to export")}
            /\ UNCHANGED <<written, raised, formatVars>>
       ELSE IF IsNone(metadata)
       THEN /\ logged' = logged \cup {Log("error", "Metadata not available")}
            /\ UNCHANGED <<written, raised, formatVars>>
       ELSE IF ~HasLastRun(metadata)
       THEN /\ logged' = logged \cup {Log("error", "Cannot determine last run time")}
            /\ UNCHANGED <<written, raised, formatVars>>
       ELSE LET wide == all_stats_df(EmptyFrame(<<>>), statistics)
                warnings == NoStatisticsWarnings(statistics)
                export_df == format_statistics_dataframe(wide)
                timezone == config.timezone
            IN  IF Empty(wide)
                THEN /\ logged' = logged \cup warnings \cup
                            {Log("warning", "No statistics to export for model")}
                     /\ UNCHANGED <<written, raised, formatVars>>
                ELSE /\ fmt_in' = wide
                     /\ fmt_out' = export_df
                     /\ formatted' = TRUE
                     /\ IF IsDatetimeIndex(export_df) /\ timezone # "none"
                           /\ export_df.tz = "naive"
                        THEN \* tz_convert of a zone-less index: TypeError
                             /\ raised' = TRUE
                             /\ logged' = logged \cup warnings
                             /\ UNCHANGED written
                        ELSE LET converted ==
                                     IF IsDatetimeIndex(export_df) /\ timezone # "none"
                                     THEN tz_convert(export_df, timezone)
                                     ELSE export_df
                             IN  /\ UNCHANGED raised
                                 /\ \/ /\ written' = written \cup
                                              {[sink |-> "csv", table |-> converted]}
                                       /\ logged' = logged \cup warnings \cup
                                              {Log("info", "Successfully exported statistics")}
                                    \/ /\ logged' = logged \cup warnings \cup
                                              {Log("error", "Error exporting statistics")}
                                       /\ UNCHANGED written
    /\ UNCHANGED <<data, statistics, metadata, cursor, models, config, now, persistVars, stats_df, built>>

\* the statistics a WeatherModel exports: those an Ensemble is built from,
\* and a table without rows after one with rows
ExportedStatistics ==
    ModelStatistics
    \cup {StatisticsDict(Frame("UTC", <<2, 4>>, PercentileColumns,
                               <<<<R(1), R(2), R(3)>>, <<R(3), R(5), R(7)>>>>),
                         EmptyFrame(PrecipitationColumns))}

\* self.metadata: None, without the time of the last run, or with it
Metadata ==
    {None, [last_run_initialisation_time |-> <<>>], [last_run_initialisation_time |-> <<1>>]}

InitModelExport ==
    /\ data = <<>>
    /\ statistics \in ExportedStatistics
    /\ metadata \in Metadata
    /\ cursor = 1
    /\ raised = FALSE
    /\ models = <<>>
    /\ \E tz \in Timezones \cup {"none"} :
         config = [timezone |-> tz, forecast_hours |-> 1]
    /\ now = 0
    /\ stats_df = EmptyFrame(<<>>)
    /\ built = FALSE
    /\ called = {}
    /\ written = {}
    /\ logged = {}
    /\ FormatIdle
    /\ PersistIdle

NextModelExport == ExportStatisticsToCsv

SpecModelExport == InitModelExport /\ [][NextModelExport]_vars

----------------------------------------------------------------------------
(* main.py: check_if_model_run_is_new *)

\* run times are 0..MaxRun
MaxRun == 2

\* the pipeline runs; each calls check_if_model_run_is_new once
PipelineRuns == {1, 2}

ModelNames == {"gfs", "ecmwf"}

\* last_run.json does not exist / holds text that is no JSON
Missing == [missing |-> TRUE]
Undecodable == [undecodable |-> TRUE]

IsDict(file) == "missing" \notin DOMAIN file /\ "undecodable" \notin DOMAIN file

\* the try block: json.load of the file, {} when it is missing or undecodable
load(file) == IF IsDict(file) THEN file ELSE <<>>

\* `not model_name or current_run_time is None`
incomplete(model_metadata) ==
    \/ "model" \notin DOMAIN model_metadata
    \/ model_metadata.model = ""
    \/ "last_run_initialisation_time" \notin DOMAIN model_metadata

\* is_new with >= in place of >
is_new_not_strict(last_runs, model_name, current_run_time) ==
    \/ model_name \notin DOMAIN last_runs
    \/ current_run_time >= last_runs[model_name]

\* `last_run_time is None or current_run_time > last_run_time`
is_new(last_runs, model_name, current_run_time) ==
    \/ model_name \notin DOMAIN last_runs
    \/ current_run_time > last_runs[model_name]

\* the states of a call: not started, between the read of the record and the
\* decision, returned
IdleCall ==
    [pc |-> "idle", model_metadata |-> <<>>, last_runs |-> <<>>, result |-> FALSE,
     wrote |-> "nothing"]

\* lines 65-81: the record is read and the metadata inspected
ReadRecord(p) ==
    /\ calls[p].pc = "idle"
    /\ \E md \in [model : ModelNames \cup {""}, last_run_initialisation_time : 0..MaxRun]
               \cup [model : ModelNames \cup {""}]
               \cup [last_run_initialisation_time : 0..MaxRun] :
           calls' = [calls EXCEPT ![p] =
               [pc |-> IF incomplete(md) THEN "done" ELSE "loaded",
                model_metadata |-> md, last_runs |-> load(last_run_file),
                result |-> FALSE, wrote |-> "nothing"]]
    /\ UNCHANGED <<last_run_file, record0>>
    /\ UNCHANGED <<dbVars, statsVars, ensembleVars, formatVars>>

\* lines 83-96: the decision; a new run is put in last_runs and the dict is
\* written over the file.  The write can fail with IOError, at open() (the
\* file is left as it was) or after open() has truncated the file
WriteRecord(p) ==
    /\ calls[p].pc = "loaded"
    /\ LET model_name == calls[p].model_metadata.model
           current_run_time == calls[p].model_metadata.last_run_initialisation_time
           last_runs == calls[p].last_runs
       IN  IF is_new(last_runs, model_name, current_run_time)
           THEN \E outcome \in {"written", "failed", "truncated"} :
                   /\ last_run_file' =
                          IF outcome = "written"
                          THEN (model_name :> current_run_time) @@ last_runs
                          ELSE IF outcome = "failed" THEN last_run_file
                          ELSE Undecodable
                   /\ calls' = [calls EXCEPT ![p].pc = "done", ![p].result = TRUE,
                                             ![p].wrote = outcome]
           ELSE /\ calls' = [calls EXCEPT ![p].pc = "done", ![p].result = FALSE]
                /\ UNCHANGED last_run_file
    /\ UNCHANGED record0
    /\ UNCHANGED <<dbVars, statsVars, ensembleVars, formatVars>>

\* the calls of one pipeline run after the other: a call starts when the
\* calls before it have returned
Sequential(p) ==
    \A q \in DOMAIN calls :
        /\ q < p => calls[q].pc = "done"
        /\ q > p => calls[q].pc = "idle"

\* what last_run.json may hold before the first call
RecordFiles ==
    {Missing, Undecodable}
        \cup UNION {[S -> 0..MaxRun] : S \in SUBSET ModelNames}

InitLastRun ==
    /\ last_run_file \in RecordFiles
    /\ record0 = last_run_file
    /\ calls = [p \in PipelineRuns |-> IdleCall]
    /\ DbIdle
    /\ StatsIdle
    /\ EnsembleIdle
    /\ FormatIdle

NextLastRun ==
    \E p \in PipelineRuns :
        \/ Sequential(p) /\ ReadRecord(p)
        \/ WriteRecord(p)

SpecLastRun == InitLastRun /\ [][NextLastRun]_vars

\* pipeline runs that overlap: the reads and writes interleave freely
NextConcurrent ==
    \E p \in PipelineRuns :
        \/ ReadRecord(p)
        \/ WriteRecord(p)

SpecConcurrent == InitLastRun /\ [][NextConcurrent]_vars

----------------------------------------------------------------------------
(* database.py *)

\* timedelta(days=1) in units of ten minutes
Day == 144

\* the rows of a table that belong to the run (model_name, run_timestamp)
OfRun(rows, model_name, run_timestamp) ==
    SelectSeq(rows, LAMBDA row :
        row.model_name = model_name /\ row.run_timestamp = run_timestamp)

\* purge_old_runs with the runs of the cutoff time itself counted as old
old_runs_inclusive(d, cutoff_date) ==
    SelectSeq(d.forecast_runs, LAMBDA run : run.run_timestamp <= cutoff_date)

\* SELECT model_name, run_timestamp FROM forecast_runs WHERE run_timestamp < ?
old_runs(d, cutoff_date) ==
    SelectSeq(d.forecast_runs, LAMBDA run : run.run_timestamp < cutoff_date)

\* DELETE FROM forecast_runs for every run of runs; the rows of the child
\* tables go with their run (ON DELETE CASCADE, foreign_keys = ON)
delete_runs(d, runs) ==
    LET Kept(row) ==
            \A i \in 1..Len(runs) :
                ~(row.model_name = runs[i].model_name
                  /\ row.run_timestamp = runs[i].run_timestamp)
    IN  [forecast_runs |-> SelectSeq(d.forecast_runs, Kept),
         raw_forecast_data |-> SelectSeq(d.raw_forecast_data, Kept),
         statistical_forecasts |-> SelectSeq(d.statistical_forecasts, Kept)]

\* retention_days is at most MaxRetention
MaxRetention == 2

PurgeOldRuns ==
    /\ purge = <<>>
    /\ \E retention_days \in 0..MaxRetention :
         LET cutoff_date == clock - retention_days * Day
         IN  /\ db' = IF old_runs(db, cutoff_date) = <<>> THEN db
                       ELSE delete_runs(db, old_runs(db, cutoff_date))
             /\ purge' = <<[retention_days |-> retention_days,
                             found |-> Len(old_runs(db, cutoff_date))]>>
    /\ UNCHANGED <<clock, sessionVars, recordVars, statsVars, ensembleVars, formatVars>>

\* the rows a stored run has: one member value and one statistic, or none
RunRow(model_name, run_timestamp) ==
    [model_name |-> model_name, run_timestamp |-> run_timestamp]

RawRow(model_name, run_timestamp, member, variable, forecast_timestamp, value) ==
    [model_name |-> model_name, run_timestamp |-> run_timestamp, member |-> member,
     variable |-> variable, forecast_timestamp |-> forecast_timestamp, value |-> value]

StatRow(model_name, run_timestamp, variable, statistic, forecast_timestamp, value) ==
    [model_name |-> model_name, run_timestamp |-> run_timestamp, variable |-> variable,
     statistic |-> statistic, forecast_timestamp |-> forecast_timestamp, value |-> value]

\* the run times of the stored runs, around the cutoffs of one and two days
StoredRunTimes == {Day - 1, Day, Day + 1, 2 * Day, 2 * Day + 1}

\* the database that holds the runs of a set, each with its rows if full
RECURSIVE StoredDb(_, _)
StoredDb(runs, full) ==
    IF runs = {} THEN EmptyDb
    ELSE LET run == CHOOSE x \in runs : \A y \in runs :
                        \/ x[2] > y[2]
                        \/ x[2] = y[2] /\ (x[1] = y[1] \/ x[1] = "gfs")
             rest == StoredDb(runs \ {run}, full)
         IN  [forecast_runs |-> Append(rest.forecast_runs, RunRow(run[1], run[2])),
              raw_forecast_data |->
                  IF run \in full
                  THEN Append(rest.raw_forecast_data,
                              RawRow(run[1], run[2], "0", "temperature_2m", run[2] + 6, R(10)))
                  ELSE rest.raw_forecast_data,
              statistical_forecasts |->
                  IF run \in full
                  THEN Append(rest.statistical_forecasts,
                              StatRow(run[1], run[2], "temperature_2m", "median",
                                      run[2] + 6, R(10)))
                  ELSE rest.statistical_forecasts]

InitPurge ==
    /\ \E runs \in SUBSET (ModelNames \X StoredRunTimes) :
         \E full \in {runs, {}, {r \in runs : r[1] = "gfs"}} :
             db = StoredDb(runs, full)
    /\ clock \in {2 * Day, 2 * Day + 1, 3 * Day}
    /\ purge = <<>>
    /\ SessionIdle
    /\ RecordIdle
    /\ StatsIdle
    /\ EnsembleIdle
    /\ FormatIdle

NextPurge == PurgeOldRuns

SpecPurge == InitPurge /\ [][NextPurge]_vars

----------------------------------------------------------------------------
(* database.py: saving and loading the tables of a run *)

\* the characters of the names, in the order in which Python compares them
Alphabet == "0123456789ABCDEFGHIJKLMNOPQRSTUVWXYZ_abcdefghijklmnopqrstuvwxyz"

Ord(ch) == CHOOSE i \in 1..Len(Alphabet) : SubSeq(Alphabet, i, i) = ch

\* a <= b for str
RECURSIVE StrLeq(_, _)
StrLeq(a, b) ==
    IF a = "" THEN TRUE
    ELSE IF b = "" THEN FALSE
    ELSE IF SubSeq(a, 1, 1) # SubSeq(b, 1, 1)
    THEN Ord(SubSeq(a, 1, 1)) < Ord(SubSeq(b, 1, 1))
    ELSE StrLeq(SubSeq(a, 2, Len(a)), SubSeq(b, 2, Len(b)))

\* the labels of a pivot axis: the distinct strings, sorted
RECURSIVE SortedStrings(_)
SortedStrings(S) ==
    IF S = {} THEN <<>>
    ELSE LET least == CHOOSE x \in S : \A y \in S : StrLeq(x, y)
         IN  <<least>> \o SortedStrings(S \ {least})

IsDigit(ch) == ch \in {"0", "1", "2", "3", "4", "5", "6", "7", "8", "9"}

\* the longest run of digits of s that starts at position i
RECURSIVE digits_at(_, _)
digits_at(s, i) ==
    IF i > Len(s) \/ ~IsDigit(SubSeq(s, i, i)) THEN ""
    ELSE SubSeq(s, i, i) \o digits_at(s, i + 1)

\* extract_member with the pattern r'member(\d)': one digit only
extract_member_one_digit(column) ==
    LET starts == {i \in 1..Len(column) :
                      /\ i + 6 <= Len(column)
                      /\ SubSeq(column, i, i + 5) = "member"
                      /\ IsDigit(SubSeq(column, i + 6, i + 6))}
    IN  IF starts = {} THEN "0"
        ELSE LET i == CHOOSE i \in starts : \A j \in starts : i <= j
             IN  SubSeq(column, i + 6, i + 6)

\* str.extract(r'member(\d+)').fillna('0'): the digits after the first
\* "member" that is followed by a digit, '0' if there is none
extract_member(column) ==
    LET starts == {i \in 1..Len(column) :
                      /\ i + 6 <= Len(column)
                      /\ SubSeq(column, i, i + 5) = "member"
                      /\ IsDigit(SubSeq(column, i + 6, i + 6))}
    IN  IF starts = {} THEN "0"
        ELSE digits_at(column, 6 + CHOOSE i \in starts : \A j \in starts : i <= j)

\* int(row['date'].timestamp()): the instant the r-th index entry denotes
timestamp(df, r) == df.index[r] - UtcOffset(df.tz)

\* reset_index().melt(id_vars=['date']): one record per cell, column by column
melt(df) ==
    LET nr == Len(df.index)
    IN  [k \in 1..(nr * Len(df.columns)) |->
            [date |-> timestamp(df, ((k - 1) % nr) + 1),
             name |-> df.columns[((k - 1) \div nr) + 1],
             value |-> df.rows[((k - 1) % nr) + 1][((k - 1) \div nr) + 1]]]

\* dropna(subset=['value'])
dropna(melted) == SelectSeq(melted, LAMBDA rec : ~IsNaN(rec.value))

\* the run a row of a child table refers to is recorded (foreign_keys = ON)
HasRun(d, row) ==
    \E i \in 1..Len(d.forecast_runs) :
        /\ d.forecast_runs[i].model_name = row.model_name
        /\ d.forecast_runs[i].run_timestamp = row.run_timestamp

\* cursor.executemany of an INSERT into a child table: the rows in order,
\* IntegrityError at the first row that breaks UNIQUE or the FOREIGN KEY
RECURSIVE executemany(_, _, _)
executemany(d, table, records) ==
    IF records = <<>> THEN d
    ELSE LET row == Head(records)
             unique == \A i \in 1..Len(d[table]) :
                           [d[table][i] EXCEPT !.value = row.value] # row
         IN  IF ~unique \/ ~HasRun(d, row) THEN Raise("IntegrityError")
             ELSE executemany([d EXCEPT ![table] = Append(@, row)], table, Tail(records))

\* save_forecast_run: INSERT INTO forecast_runs, PRIMARY KEY (model_name,
\* run_timestamp)
save_forecast_run(d, model_name, run_timestamp) ==
    IF HasRun(d, RunRow(model_name, run_timestamp)) THEN Raise("IntegrityError")
    ELSE [d EXCEPT !.forecast_runs = Append(@, RunRow(model_name, run_timestamp))]

\* the records save_raw_data builds from the table of one variable
raw_records(model_name, run_timestamp, variable, data_df) ==
    LET melted == dropna(melt(data_df))
    IN  [k \in 1..Len(melted) |->
            RawRow(model_name, run_timestamp, extract_member(melted[k].name), variable,
                   melted[k].date, melted[k].value)]

\* save_raw_data over the items of data from the i-th on
RECURSIVE save_raw_data_from(_, _, _, _, _)
save_raw_data_from(d, model_name, run_timestamp, tables, i) ==
    IF Raises(d) \/ i > Len(tables) THEN d
    ELSE save_raw_data_from(
             IF IsNone(tables[i].df) THEN d
             ELSE executemany(d, "raw_forecast_data",
                      raw_records(model_name, run_timestamp, tables[i].variable, tables[i].df)),
             model_name, run_timestamp, tables, i + 1)

save_raw_data(d, model_name, run_timestamp, tables) ==
    save_raw_data_from(d, model_name, run_timestamp, tables, 1)

stat_records(model_name, run_timestamp, variable, table) ==
    LET melted == dropna(melt(table))
    IN  [k \in 1..Len(melted) |->
            StatRow(model_name, run_timestamp, variable, melted[k].name,
                    melted[k].date, melted[k].value)]

\* save_statistics over the items of statistics from the i-th on
RECURSIVE save_statistics_from(_, _, _, _, _)
save_statistics_from(d, model_name, run_timestamp, stats, i) ==
    IF Raises(d) \/ i > Len(stats) THEN d
    ELSE save_statistics_from(
             IF IsNone(stats[i].df) \/ Empty(stats[i].df) THEN d
             ELSE executemany(d, "statistical_forecasts",
                      stat_records(model_name, run_timestamp, stats[i].variable, stats[i].df)),
             model_name, run_timestamp, stats, i + 1)

save_statistics(d, model_name, run_timestamp, stats) ==
    save_statistics_from(d, model_name, run_timestamp, stats, 1)

\* DataFrame.pivot(index='forecast_timestamp', columns=by, values='value')
\* of the rows of one variable: sorted labels on both axes, NaN where no row
\* supplies the cell; the index is naive (pd.to_datetime(unit='s'))
pivot(rows, by, prefix) ==
    LET labels == SortedSeq({rows[i].forecast_timestamp : i \in 1..Len(rows)})
        names == SortedStrings({rows[i][by] : i \in 1..Len(rows)})
        Cell(t, name) ==
            IF \E i \in 1..Len(rows) :
                   rows[i].forecast_timestamp = t /\ rows[i][by] = name
            THEN rows[CHOOSE i \in 1..Len(rows) :
                        rows[i].forecast_timestamp = t /\ rows[i][by] = name].value
            ELSE NaN
    IN  [tz |-> "naive", index |-> labels,
         columns |-> [c \in 1..Len(names) |-> prefix \o names[c]],
         rows |-> [r \in 1..Len(labels) |->
                     [c \in 1..Len(names) |-> Cell(labels[r], names[c])]]]

\* the dict a load builds: one pivoted table per variable that has rows
load_tables(rows, by, prefix) ==
    [variable \in {rows[i].variable : i \in 1..Len(rows)} |->
        pivot(SelectSeq(rows, LAMBDA row : row.variable = variable), by, prefix)]

\* load_raw_data: the member tables of the run, the columns named
\* 'member' + the stored member
load_raw_data(d, model_name, run_timestamp) ==
    load_tables(OfRun(d.raw_forecast_data, model_name, run_timestamp), "member", "member")

\* load_statistics: the statistics tables of the run
load_statistics(d, model_name, run_timestamp) ==
    load_tables(OfRun(d.statistical_forecasts, model_name, run_timestamp), "statistic", "")

----------------------------------------------------------------------------
(* The save and load sequence of tests/test_database.py on one connection *)

\* a member table with the index and the member columns given
SavedFrame(tz, index, columns, rows) ==
    [tz |-> tz, index |-> index, columns |-> columns, rows |-> rows]

\* the member columns of a variable: as the test names them, as
\* retrieve_model_variable names them, and with a two-digit member
MemberColumns(variable) ==
    {<<"member1", "member2">>,
     <<variable \o "_member0", variable \o "_member1">>,
     <<"member2", "member10">>}

SavedValues == {NaN, R(10), Q(21, 2)}

\* the member tables of a variable: one or two rows of two members
RawTables(variable) ==
    {SavedFrame(tz, index, columns, rows) :
        tz \in {"UTC", "naive"}, index \in {<<6>>}, columns \in MemberColumns(variable),
        rows \in [1..1 -> [1..2 -> SavedValues]]}
    \cup
    {SavedFrame(tz, index, columns, rows) :
        tz \in {"UTC", "naive"}, index \in {<<6, 12>>}, columns \in MemberColumns(variable),
        rows \in [1..2 -> [1..2 -> SavedValues]]}

\* the statistics calculate_statistics derives from the items of a data dict
statistics_items(tables) ==
    LET with_data == SelectSeq(tables, LAMBDA item : ~IsNone(item.df))
    IN  [i \in 1..Len(with_data) |->
            [variable |-> with_data[i].variable,
             df |-> statistics_of(with_data[i].variable, with_data[i].df)]]

\* the data dicts that are saved: temperature_2m, alone or after a
\* precipitation that has no data or one row
RoundTripData ==
    LET first == {<<>>,
                  <<[variable |-> "precipitation", df |-> None]>>,
                  <<[variable |-> "precipitation",
                     df |-> SavedFrame("UTC", <<6>>, <<"member1", "member2">>,
                                       <<<<R(0), Q(3, 2)>>>>)]>>}
    IN  {head \o <<[variable |-> "temperature_2m", df |-> f]>> :
            head \in first, f \in RawTables("temperature_2m")}

\* the test's own tables
TestRawData ==
    <<[variable |-> "temperature",
       df |-> SavedFrame("naive", <<0, 48>>, <<"member1", "member2">>,
                         <<<<R(10), R(12)>>, <<R(20), R(22)>>>>)]>>

TestStatisticsData ==
    <<[variable |-> "temperature",
       df |-> SavedFrame("naive", <<0, 48>>, <<"p10", "median">>,
                         <<<<Q(102, 10), R(11)>>, <<Q(202, 10), R(21)>>>>)]>>

Session(model_name, run_timestamp, raw_data, statistics_data, conn) ==
    [pc |-> "start", model_name |-> model_name, run_timestamp |-> run_timestamp,
     raw_data |-> raw_data, statistics_data |-> statistics_data, conn |-> conn,
     loaded_raw |-> <<>>, loaded_stats |-> <<>>]

InitRoundTrip ==
    /\ db \in {EmptyDb,
               StoredDb({<<"gfs", Day>>}, {<<"gfs", Day>>}),
               StoredDb({<<"gfs", Day>>, <<"gfs", 2 * Day>>}, {<<"gfs", Day>>})}
    /\ \/ \E raw_data \in RoundTripData :
            session = <<Session("gfs", 2 * Day, raw_data, statistics_items(raw_data), db)>>
       \/ session = <<Session("gfs", 2 * Day, TestRawData, TestStatisticsData, db)>>
    /\ clock = 2 * Day
    /\ purge = <<>>
    /\ wms = <<>>
    /\ RecordIdle
    /\ StatsIdle
    /\ EnsembleIdle
    /\ FormatIdle

\* a statement of the session: its connection's view changes, or the
\* statement raises and the test stops
Statement(p, from, to, result) ==
    /\ session[p].pc = from
    /\ session' = [session EXCEPT ![p] =
           IF Raises(result) THEN [@ EXCEPT !.pc = "failed"]
           ELSE [@ EXCEPT !.pc = to, !.conn = result]]
    /\ UNCHANGED <<db, clock, purge, wms, recordVars, statsVars, ensembleVars, formatVars>>

SaveForecastRun(p) ==
    Statement(p, "start", "run_saved",
        save_forecast_run(session[p].conn, session[p].model_name, session[p].run_timestamp))

SaveRawData(p) ==
    Statement(p, "run_saved", "raw_saved",
        save_raw_data(session[p].conn, session[p].model_name, session[p].run_timestamp,
                      session[p].raw_data))

SaveStatistics(p) ==
    Statement(p, "raw_saved", "stats_saved",
        save_statistics(session[p].conn, session[p].model_name, session[p].run_timestamp,
                        session[p].statistics_data))

\* conn.commit(): the connection's view becomes the content of the file
Commit(p) ==
    /\ session[p].pc = "stats_saved"
    /\ db' = session[p].conn
    /\ session' = [session EXCEPT ![p].pc = "committed"]
    /\ UNCHANGED <<clock, purge, wms, recordVars, statsVars, ensembleVars, formatVars>>

\* load_raw_data on a connection of its own: it reads the committed content
LoadRawData(p) ==
    /\ session[p].pc = "committed"
    /\ session' = [session EXCEPT
           ![p].pc = "raw_loaded",
           ![p].loaded_raw =
               load_raw_data(db, session[p].model_name, session[p].run_timestamp)]
    /\ UNCHANGED <<db, clock, purge, wms, recordVars, statsVars, ensembleVars, formatVars>>

LoadStatistics(p) ==
    /\ session[p].pc = "raw_loaded"
    /\ session' = [session EXCEPT
           ![p].pc = "loaded",
           ![p].loaded_stats =
               load_statistics(db, session[p].model_name, session[p].run_timestamp)]
    /\ UNCHANGED <<db, clock, purge, wms, recordVars, statsVars, ensembleVars, formatVars>>

NextRoundTrip ==
    \E p \in DOMAIN session :
        \/ SaveForecastRun(p)
        \/ SaveRawData(p)
        \/ SaveStatistics(p)
        \/ Commit(p)
        \/ LoadRawData(p)
        \/ LoadStatistics(p)

SpecRoundTrip == InitRoundTrip /\ [][NextRoundTrip]_vars

----------------------------------------------------------------------------
(* weather_model.py: WeatherModel.__init__ and the database *)

\* timedelta(minutes=10) in units of ten minutes
TenMinutes == 1

\* get_last_run_timestamp: SELECT MAX(run_timestamp) of the model's runs;
\* None if there is no run or the maximum is 0 (if result and result[0])
get_last_run_timestamp(d, model_name) ==
    LET times == {d.forecast_runs[i].run_timestamp :
                     i \in {j \in 1..Len(d.forecast_runs) :
                               d.forecast_runs[j].model_name = model_name}}
        latest == CHOOSE t \in times : \A u \in times : u <= t
    IN  IF times = {} THEN None
        ELSE IF latest = 0 THEN None
        ELSE [time |-> latest]

\* metadata.get(key) is None
Lacks(md, key) == key \notin DOMAIN md

\* WeatherModel.check_if_new
check_if_new(d, model_name, md) ==
    IF IsNone(md) THEN FALSE
    ELSE IF Lacks(md, "last_run_initialisation_time") THEN FALSE
    ELSE LET last_run_from_db == get_last_run_timestamp(d, model_name)
         IN  \/ IsNone(last_run_from_db)
             \/ md.last_run_initialisation_time > last_run_from_db.time

\* check_if_new with a run as late as the recorded one counted as new
check_if_new_not_strict(d, model_name, md) ==
    IF IsNone(md) THEN FALSE
    ELSE IF Lacks(md, "last_run_initialisation_time") THEN FALSE
    ELSE LET last_run_from_db == get_last_run_timestamp(d, model_name)
         IN  \/ IsNone(last_run_from_db)
             \/ md.last_run_initialisation_time >= last_run_from_db.time

\* the values of a column in the order in which they first appear (unique())
RECURSIVE unique(_)
unique(s) ==
    IF s = <<>> THEN <<>>
    ELSE LET front == unique(SubSeq(s, 1, Len(s) - 1))
         IN  IF s[Len(s)] \in Range(front) THEN front ELSE Append(front, s[Len(s)])

\* the items of a loaded dict, in the order in which the variables appear
\* in the rows
items(loaded, rows) ==
    LET names == unique([i \in 1..Len(rows) |-> rows[i].variable])
    IN  [i \in 1..Len(names) |-> [variable |-> names[i], df |-> loaded[names[i]]]]

\* WeatherModel.load_from_db: the tables of the latest run of the model,
\* self.data and self.statistics as they were if there is none
load_from_db(d, self) ==
    LET last_run_timestamp == get_last_run_timestamp(d, self.name)
    IN  IF IsNone(last_run_timestamp) THEN self
        ELSE [self EXCEPT
                 !.data = items(load_raw_data(d, self.name, last_run_timestamp.time),
                                OfRun(d.raw_forecast_data, self.name,
                                      last_run_timestamp.time)),
                 !.statistics =
                     items(load_statistics(d, self.name, last_run_timestamp.time),
                           OfRun(d.statistical_forecasts, self.name,
                                 last_run_timestamp.time))]

\* if self.data: the dict has an entry
Truthy(dict) == Len(dict) > 0

\* WeatherModel.calculate_statistics on a dict: self.statistics with the
\* statistics of the variables that have a table, or the exception of the
\* first that raises
calculate_statistics(tables) ==
    LET raising == {i \in 1..Len(tables) :
                       /\ ~IsNone(tables[i].df)
                       /\ Raises(statistics_of(tables[i].variable, tables[i].df))}
    IN  IF raising = {} THEN [statistics |-> statistics_items(tables)]
        ELSE statistics_of(tables[CHOOSE i \in raising : \A j \in raising : i <= j].variable,
                           tables[CHOOSE i \in raising : \A j \in raising : i <= j].df)

\* the parameters of save_forecast_run after conn: model_name, run_timestamp
save_forecast_run_parameters == 2

\* a call save_forecast_run(conn, *args): TypeError unless the arguments
\* are as many as the parameters
call_save_forecast_run(d, args) ==
    IF Len(args) # save_forecast_run_parameters THEN Raise("TypeError")
    ELSE save_forecast_run(d, args[1], args[2])

\* the try block of save_to_db on the connection's view d: what it would
\* commit, or the exception that leaves it
try_save(d, self) ==
    LET last_run == self.metadata.last_run_initialisation_time
        run == call_save_forecast_run(d, <<self.name, last_run, "version">>)
        raw == IF Raises(run) THEN run
               ELSE save_raw_data(run, self.name, last_run, self.data)
    IN  IF Raises(raw) THEN raw
        ELSE save_statistics(raw, self.name, last_run, self.statistics)

\* save_to_db that records the run and then leaves without a rollback
save_to_db_run_only(d, self) ==
    IF IsNone(self.metadata) THEN d
    ELSE IF Lacks(self.metadata, "last_run_initialisation_time") THEN d
    ELSE LET run == save_forecast_run(d, self.name,
                                      self.metadata.last_run_initialisation_time)
         IN  IF Raises(run) THEN d ELSE run

\* WeatherModel.save_to_db: the content of forecasts.db after it; commit
\* if the try block ends, rollback on every exception
save_to_db(d, self) ==
    IF IsNone(self.metadata) THEN d
    ELSE IF Lacks(self.metadata, "last_run_initialisation_time") THEN d
    ELSE IF Raises(try_save(d, self)) THEN d
    ELSE try_save(d, self)

\* the variables retrieve_data asks for, one of each kind: percentiles, a
\* distribution that raises on missing values, and one the API module does
\* not support
variables == <<"temperature_2m", "wind_direction_10m", "weather_code">>

\* retrieve_model_variable and set_index('date'): None for a variable
\* without a filter, else the hourly table of the members the reply holds
ApiTable(variable, members, value) ==
    IF variable = "weather_code" THEN None
    ELSE SavedFrame("UTC", <<6>>,
             [m \in 1..members |-> variable \o "_member" \o SubSeq(Alphabet, m, m)],
             <<[m \in 1..members |-> IF m = 1 THEN value ELSE R(10)]>>)

\* the replies of the API: two members or none, a first member that is
\* missing or not
Replies == {[members |-> 2, value |-> R(90)], [members |-> 2, value |-> NaN],
            [members |-> 0, value |-> NaN]}

\* WeatherModel.retrieve_data
retrieve_data(reply) ==
    [i \in 1..Len(variables) |->
        [variable |-> variables[i],
         df |-> ApiTable(variables[i], reply.members, reply.value)]]

\* the object as the first lines of __init__ leave it; new, branch,
\* downloaded, raised and at record what the construction did and when
NewObject(model_name, md, t) ==
    [name |-> model_name, metadata |-> md, is_valid |-> FALSE, is_new |-> FALSE,
     data |-> <<>>, statistics |-> <<>>,
     new |-> FALSE, branch |-> "start", downloaded |-> FALSE, raised |-> FALSE, at |-> t]

\* Loaded without the check of self.data
Loaded_unverified(d, self, branch) ==
    LET loaded == load_from_db(d, self)
    IN  [loaded EXCEPT !.branch = branch, !.is_valid = TRUE]

\* load_from_db and "if self.data: self.is_valid = True"
Loaded(d, self, branch) ==
    LET loaded == load_from_db(d, self)
    IN  [loaded EXCEPT !.branch = branch, !.is_valid = Truthy(loaded.data)]

\* the download branch of __init__: retrieve_data, calculate_statistics,
\* the two flags; an exception of calculate_statistics leaves __init__
Downloaded(self, reply) ==
    LET retrieved == retrieve_data(reply)
        stats == calculate_statistics(retrieved)
    IN  IF Raises(stats)
        THEN [self EXCEPT !.branch = "download", !.downloaded = TRUE, !.data = retrieved,
                          !.raised = TRUE]
        ELSE [self EXCEPT !.branch = "download", !.downloaded = TRUE, !.data = retrieved,
                          !.statistics = stats.statistics,
                          !.is_valid = Truthy(retrieved), !.is_new = Truthy(retrieved)]

\* WeatherModel.__init__ at time t on the database d: the object
init(d, t, model_name, md, reply) ==
    LET self == [NewObject(model_name, md, t) EXCEPT
                    !.new = check_if_new(d, model_name, md)]
    IN  IF ~self.new THEN Loaded(d, self, "not_new")
        ELSE IF Lacks(md, "last_run_availability_time")
        THEN [self EXCEPT !.branch = "no_availability_time"]
        ELSE IF t - md.last_run_availability_time < TenMinutes
        THEN Loaded(d, self, "too_recent")
        ELSE IF Lacks(md, "last_run_initialisation_time")
        THEN [self EXCEPT !.branch = "no_initialisation_time"]
        ELSE IF t - md.last_run_initialisation_time > Day
        THEN [self EXCEPT !.branch = "too_old"]
        ELSE Downloaded(self, reply)

\* the metadata the API may serve at time t: none, without times, or with
\* the times of a run
Metadatas(t) ==
    {None, [model |-> "gfs"]}
    \cup {[model |-> "gfs", last_run_initialisation_time |-> t - 3]}
    \cup {[model |-> "gfs", last_run_initialisation_time |-> i,
           last_run_availability_time |-> a] :
             i \in {t - Day - 1, t - Day, t - 3}, a \in {t - 1, t}}

\* at most MaxConstructions objects are constructed
MaxConstructions == 2

\* the clock advances by at most MaxTicks ten-minute steps
MaxTicks == 2

Clock0 == 3 * Day

\* WeatherModel(model_name, config): __init__ with save_to_db at its end
Construct ==
    /\ Len(wms) < MaxConstructions
    /\ \E md \in Metadatas(Clock0), reply \in Replies :
         LET self == init(db, clock, "gfs", md, reply)
         IN  /\ wms' = Append(wms, self)
             /\ db' = IF self.downloaded /\ ~self.raised THEN save_to_db(db, self) ELSE db
    /\ UNCHANGED <<clock, purge, session, recordVars, statsVars, ensembleVars, formatVars>>

\* time passes between two constructions
Tick ==
    /\ clock < Clock0 + MaxTicks
    /\ clock' = clock + 1
    /\ UNCHANGED <<db, purge, session, wms, recordVars, statsVars, ensembleVars, formatVars>>

InitConstruct ==
    /\ db \in {EmptyDb,
               StoredDb({<<"gfs", Clock0 - 3>>}, {<<"gfs", Clock0 - 3>>}),
               StoredDb({<<"gfs", Clock0 - 3>>}, {}),
               StoredDb({<<"gfs", Clock0 - Day>>, <<"ecmwf", Clock0 - 3>>},
                        {<<"gfs", Clock0 - Day>>, <<"ecmwf", Clock0 - 3>>})}
    /\ clock = Clock0
    /\ purge = <<>>
    /\ SessionIdle
    /\ RecordIdle
    /\ StatsIdle
    /\ EnsembleIdle
    /\ FormatIdle

NextConstruct ==
    \/ Construct
    \/ Tick

SpecConstruct == InitConstruct /\ [][NextConstruct]_vars

----------------------------------------------------------------------------
(* WeatherModel.save_to_db called by two processes *)

Processes == {1, 2}

\* the objects save_to_db is called on: what the download branch of
\* __init__ leaves for a reply, under metadata with or without a run time
SavedObjects ==
    {Downloaded(NewObject("gfs", md, Clock0), reply) :
        md \in {None, [model |-> "gfs"],
                [model |-> "gfs", last_run_initialisation_time |-> Clock0 - 3,
                 last_run_availability_time |-> Clock0 - 1],
                [model |-> "gfs", last_run_initialisation_time |-> Clock0 - Day,
                 last_run_availability_time |-> Clock0 - 1]},
        reply \in {r \in Replies : ~IsNaN(r.value) \/ r.members = 0}}

\* the guards of save_to_db, get_db_connection() and conn.execute("BEGIN")
BeginSaveToDb(p) ==
    /\ session[p].pc = "start"
    /\ session' = [session EXCEPT ![p].pc =
           IF IsNone(session[p].self.metadata) THEN "returned"
           ELSE IF Lacks(session[p].self.metadata, "last_run_initialisation_time")
           THEN "returned"
           ELSE "begun"]
    /\ UNCHANGED <<db, clock, purge, wms, recordVars, statsVars, ensembleVars, formatVars>>

\* the try block with its handlers and conn.close(): the transaction is
\* committed as a whole or rolled back
FinishSaveToDb(p) ==
    /\ session[p].pc = "begun"
    /\ db' = save_to_db(db, session[p].self)
    /\ session' = [session EXCEPT
           ![p].pc = "closed",
           ![p].outcome = IF Raises(try_save(db, session[p].self))
                          THEN try_save(db, session[p].self).raised
                          ELSE "committed"]
    /\ UNCHANGED <<clock, purge, wms, recordVars, statsVars, ensembleVars, formatVars>>

InitSave ==
    /\ db \in {EmptyDb,
               StoredDb({<<"gfs", Clock0 - 3>>}, {<<"gfs", Clock0 - 3>>}),
               StoredDb({<<"gfs", Clock0 - Day>>, <<"ecmwf", Clock0 - 3>>},
                        {<<"ecmwf", Clock0 - 3>>})}
    /\ \E first \in SavedObjects, second \in SavedObjects :
          session = <<[pc |-> "start", self |-> first, outcome |-> "none"],
                      [pc |-> "start", self |-> second, outcome |-> "none"]>>
    /\ clock = Clock0
    /\ purge = <<>>
    /\ wms = <<>>
    /\ RecordIdle
    /\ StatsIdle
    /\ EnsembleIdle
    /\ FormatIdle

NextSave ==
    \E p \in Processes :
        \/ BeginSaveToDb(p)
        \/ FinishSaveToDb(p)

SpecSave == InitSave /\ [][NextSave]_vars

----------------------------------------------------------------------------
(* Properties of the statistics *)

\* the loop has stored the statistics of the i-th variable of self.data
Processed(i) ==
    /\ i \in 1..Len(data)
    /\ i < cursor
    /\ ~IsNone(data[i].df)
    /\ data[i].variable \in DOMAIN statistics

InputOf(i) == data[i].df

OutputOf(i) == statistics[data[i].variable]

\* the cell of row r of a table in the column called name
Cell(df, r, name) ==
    df.rows[r][CHOOSE c \in 1..Len(df.columns) : df.columns[c] = name]

Present(row) == {c \in 1..Len(row) : ~IsNaN(row[c])}

IsPercentileVariable(v) ==
    v \notin {"precipitation", "snowfall", "cloud_cover", "wind_direction_10m",
              "weather_code"}

PercentilesOrdered(df, r) ==
    /\ Leq(Cell(df, r, "p10"), Cell(df, r, "median"))
    /\ Leq(Cell(df, r, "median"), Cell(df, r, "p90"))

\* C1 as stated: in every row of the table calculate_percentiles returns for a
\* non-empty member table, p10 <= median <= p90.
C1_AllRowsOrdered ==
    \A i \in 1..Len(data) :
        (Processed(i) /\ IsPercentileVariable(data[i].variable) /\ ~Empty(InputOf(i)))
        => \A r \in 1..Len(OutputOf(i).rows) : PercentilesOrdered(OutputOf(i), r)

\* C1 amended: p10 <= median <= p90 in every row in which at least one member
\* has a value; a row in which no member has a value gets p10, median and p90
\* all NaN, which are not ordered.
C1_RowsWithValueOrdered ==
    \A i \in 1..Len(data) :
        (Processed(i) /\ IsPercentileVariable(data[i].variable) /\ ~Empty(InputOf(i)))
        => /\ Len(OutputOf(i).rows) = Len(InputOf(i).rows)
           /\ \A r \in 1..Len(OutputOf(i).rows) :
                IF Present(InputOf(i).rows[r]) # {}
                THEN PercentilesOrdered(OutputOf(i), r)
                ELSE /\ IsNaN(Cell(OutputOf(i), r, "p10"))
                     /\ IsNaN(Cell(OutputOf(i), r, "median"))
                     /\ IsNaN(Cell(OutputOf(i), r, "p90"))

\* a row with members of different values and a missing member, whose three
\* percentiles are strictly ordered
C1_Witness ==
    \E i \in 1..Len(data) :
        /\ Processed(i) /\ IsPercentileVariable(data[i].variable)
        /\ \E r \in 1..Len(OutputOf(i).rows) :
             /\ \E c \in 1..Len(InputOf(i).rows[r]) : IsNaN(InputOf(i).rows[r][c])
             /\ Lt(Cell(OutputOf(i), r, "p10"), Cell(OutputOf(i), r, "median"))
             /\ Lt(Cell(OutputOf(i), r, "median"), Cell(OutputOf(i), r, "p90"))

\* the named columns of each kind of statistics table
NamedColumns(v) ==
    IF v \in {"precipitation", "snowfall"} THEN PrecipitationColumns
    ELSE IF v = "cloud_cover" THEN OctaColumns
    ELSE IF v = "wind_direction_10m" THEN WindColumns
    ELSE IF v = "weather_code" THEN WeatherCodeColumns
    ELSE PercentileColumns

\* C5 as stated: a zero-row member table makes no statistic function raise, and
\* each returns a zero-row table that carries its kind's named columns.
C5_ZeroRowsKeepColumns ==
    /\ \A i \in 1..Len(data) :
         (~IsNone(data[i].df) /\ Len(data[i].df.index) = 0) => ~(raised /\ cursor = i)
    /\ \A i \in 1..Len(data) :
         (Processed(i) /\ Len(InputOf(i).index) = 0)
         => /\ OutputOf(i).rows = <<>>
            /\ OutputOf(i).columns = NamedColumns(data[i].variable)

\* C6: in every row of the octa distribution and of the directional
\* distribution in which at least one member reports a value, the row's
\* probabilities sum to 1.
C6_ProbabilitiesSumToOne ==
    \A i \in 1..Len(data) :
        (/\ Processed(i)
         /\ data[i].variable \in {"cloud_cover", "wind_direction_10m"}
         /\ ~Empty(InputOf(i)))
        => /\ Len(OutputOf(i).rows) = Len(InputOf(i).rows)
           /\ Len(OutputOf(i).columns) =
                  (IF data[i].variable = "cloud_cover" THEN 9 ELSE 8)
           /\ \A r \in 1..Len(OutputOf(i).rows) :
                Present(InputOf(i).rows[r]) # {}
                => SumSeq(OutputOf(i).rows[r]) = R(1)

\* an octa row with a missing member and two members in different octas
C6_Witness ==
    \E i \in 1..Len(data) :
        /\ Processed(i) /\ data[i].variable = "cloud_cover"
        /\ \E r \in 1..Len(OutputOf(i).rows) :
             /\ \E c \in 1..Len(InputOf(i).rows[r]) : IsNaN(InputOf(i).rows[r][c])
             /\ Cell(OutputOf(i), r, "octa_4_prob") = Q(1, 2)
             /\ Cell(OutputOf(i), r, "octa_8_prob") = Q(1, 2)

\* the row of the scenario of spec section 8
ScenarioWindRow == <<R(0), R(44), Q(224, 10), Q(225, 10), Q(3375, 10)>>

\* row 0 of test_calculate_wind_direction_probabilities_basic
TestWindRow == <<R(0), R(360), Q(224, 10), Q(225, 10), Q(3375, 10)>>

IsWindRow(i, row) ==
    /\ Processed(i)
    /\ data[i].variable = "wind_direction_10m"
    /\ Len(InputOf(i).rows) >= 1
    /\ InputOf(i).rows[1] = row

\* C7 as stated: wind directions [0, 44, 22.4, 22.5, 337.5] give N_prob = 0.8.
C7_ScenarioRowFourFifths ==
    \A i \in 1..Len(data) :
        IsWindRow(i, ScenarioWindRow) => Cell(OutputOf(i), 1, "N_prob") = Q(4, 5)

\* C7 amended: wind directions [0, 44, 22.4, 22.5, 337.5] give N_prob = 0.6:
\* 0, 22.4 and 337.5 are in the N bucket, 44 and 22.5 in NE.  N_prob = 0.8 is
\* the result for the row [0, 360, 22.4, 22.5, 337.5] of the test.
C7_ScenarioRowThreeFifths ==
    \A i \in 1..Len(data) :
        /\ IsWindRow(i, ScenarioWindRow)
           => /\ Cell(OutputOf(i), 1, "N_prob") = Q(3, 5)
              /\ Cell(OutputOf(i), 1, "NE_prob") = Q(2, 5)
        /\ IsWindRow(i, TestWindRow)
           => /\ Cell(OutputOf(i), 1, "N_prob") = Q(4, 5)
              /\ Cell(OutputOf(i), 1, "NE_prob") = Q(1, 5)

C7_Witness ==
    \E i \in 1..Len(data) :
        IsWindRow(i, ScenarioWindRow) /\ Len(OutputOf(i).rows) = 1

\* a direction in tenths of a degree (the directions used are multiples of 0.1)
Tenths(deg) == (deg[1] * 10) \div deg[2]

\* floor(((deg + 22.5) mod 360) / 45) in integer arithmetic on tenths
Bucket(deg) == ((Tenths(deg) + 225) % 3600) \div 450

\* C8: each member direction is counted in bucket
\* floor(((deg + 22.5) mod 360) / 45), buckets 0..7 being N, NE, E, SE, S, SW,
\* W, NW; each label's probability is the fraction of members in its bucket; a
\* direction on a sector boundary 22.5 + 45 k falls into the following sector
\* (22.5 -> NE, 337.5 -> N) and 360 is counted as N.
C8_WindBuckets ==
    \A i \in 1..Len(data) :
        (Processed(i) /\ data[i].variable = "wind_direction_10m" /\ ~Empty(InputOf(i)))
        => /\ OutputOf(i).columns =
                  <<"N_prob", "NE_prob", "E_prob", "SE_prob", "S_prob", "SW_prob",
                    "W_prob", "NW_prob">>
           /\ Len(OutputOf(i).rows) = Len(InputOf(i).rows)
           /\ \A r \in 1..Len(InputOf(i).rows) :
                LET row == InputOf(i).rows[r]
                IN  /\ \A k \in 0..7 :
                          OutputOf(i).rows[r][k + 1] =
                              Q(Cardinality({c \in 1..Len(row) : Bucket(row[c]) = k}),
                                Len(row))
                    /\ \A c \in 1..Len(row) : \A k \in 0..7 :
                          row[c] = Q(225 + 450 * k, 10)
                          => Lt(R(0), OutputOf(i).rows[r][((k + 1) % 8) + 1])
                    /\ (\E c \in 1..Len(row) : row[c] \in {R(360), Q(3375, 10)})
                          => Lt(R(0), Cell(OutputOf(i), r, "N_prob"))
                    /\ (\E c \in 1..Len(row) : row[c] = Q(225, 10))
                          => Lt(R(0), Cell(OutputOf(i), r, "NE_prob"))

\* a row holding 22.5, 337.5 and 360: one member in NE, two in N
C8_Witness ==
    \E i \in 1..Len(data) :
        /\ Processed(i) /\ data[i].variable = "wind_direction_10m"
        /\ \E r \in 1..Len(InputOf(i).rows) :
             /\ {InputOf(i).rows[r][c] : c \in 1..Len(InputOf(i).rows[r])} =
                    {Q(225, 10), Q(3375, 10), R(360)}
             /\ Len(InputOf(i).rows[r]) = 3
             /\ Cell(OutputOf(i), r, "NE_prob") = Q(1, 3)
             /\ Cell(OutputOf(i), r, "N_prob") = Q(2, 3)

\* the members of a row with a value above 0
Positive(row) == {c \in 1..Len(row) : Gt(row[c], R(0))}

RECURSIVE SumOver(_, _)
SumOver(row, cells) ==
    IF cells = {} THEN R(0)
    ELSE LET c == CHOOSE x \in cells : TRUE
         IN  Add(row[c], SumOver(row, cells \ {c}))

\* C9: per row, probability = (members with value > 0) / (members) and
\* conditional_average = the mean of the members with value > 0; where
\* probability is 0, conditional_average is exactly 0, never NaN.
C9_PrecipitationStatistics ==
    \A i \in 1..Len(data) :
        (/\ Processed(i)
         /\ data[i].variable \in {"precipitation", "snowfall"}
         /\ ~Empty(InputOf(i)))
        => /\ Len(OutputOf(i).rows) = Len(InputOf(i).rows)
           /\ \A r \in 1..Len(InputOf(i).rows) :
                LET row == InputOf(i).rows[r]
                    prob == Cell(OutputOf(i), r, "probability")
                    avg == Cell(OutputOf(i), r, "conditional_average")
                IN  /\ prob = Q(Cardinality(Positive(row)), Len(row))
                    /\ Positive(row) # {}
                       => Mul(avg, R(Cardinality(Positive(row)))) =
                              SumOver(row, Positive(row))
                    /\ prob = R(0) => (avg = R(0) /\ ~IsNaN(avg))

\* the scenario row [0, -1, 0]: probability 0 and conditional_average 0
C9_Witness ==
    \E i \in 1..Len(data) :
        /\ Processed(i) /\ data[i].variable = "precipitation"
        /\ \E r \in 1..Len(InputOf(i).rows) :
             /\ InputOf(i).rows[r] = Row(<<0, -1, 0>>)
             /\ Cell(OutputOf(i), r, "probability") = R(0)
             /\ Cell(OutputOf(i), r, "conditional_average") = R(0)

\* the values present in a row, and its k-th smallest value
PresentValues(row) == {row[c] : c \in Present(row)}

OrderStatistic(row, k) ==
    CHOOSE x \in PresentValues(row) :
        /\ Cardinality({c \in Present(row) : Lt(row[c], x)}) < k
        /\ Cardinality({c \in Present(row) : Leq(row[c], x)}) >= k

\* p is the qn/10 quantile of the row by linear interpolation between the order
\* statistics around rank qn/10 * (n - 1) of its n values
Interpolates(p, row, qn) ==
    LET n == Cardinality(Present(row))
        lo == (qn * (n - 1)) \div 10
        rem == (qn * (n - 1)) % 10
    IN  IF rem = 0 THEN p = OrderStatistic(row, lo + 1)
        ELSE Mul(R(10), p) =
                 Add(Mul(R(10 - rem), OrderStatistic(row, lo + 1)),
                     Mul(R(rem), OrderStatistic(row, lo + 2)))

\* C10: each row's p10, median and p90 are the 10th, 50th and 90th percentile
\* of that row's n member values, by linear interpolation between order
\* statistics at rank q (n - 1), whatever the other rows hold; members
\* [10, 11, 12, 13, 14] give 10.4, 12.0 and 13.6, and a single member gives its
\* own value three times.
C10_InterpolatedPercentiles ==
    \A i \in 1..Len(data) :
        (Processed(i) /\ IsPercentileVariable(data[i].variable) /\ ~Empty(InputOf(i)))
        => /\ Len(OutputOf(i).rows) = Len(InputOf(i).rows)
           /\ \A r \in 1..Len(InputOf(i).rows) :
                LET row == InputOf(i).rows[r]
                    out == OutputOf(i).rows[r]
                IN  /\ Present(row) # {}
                       => /\ Interpolates(Cell(OutputOf(i), r, "p10"), row, 1)
                          /\ Interpolates(Cell(OutputOf(i), r, "median"), row, 5)
                          /\ Interpolates(Cell(OutputOf(i), r, "p90"), row, 9)
                    /\ PresentValues(row) = {R(10), R(11), R(12), R(13), R(14)}
                       => out = <<Q(104, 10), R(12), Q(136, 10)>>
                    /\ Cardinality(Present(row)) = 1
                       => \E x \in PresentValues(row) : out = <<x, x, x>>

\* the two rows of test_calculate_percentiles_basic, each with its own result
C10_Witness ==
    \E i \in 1..Len(data) :
        /\ Processed(i) /\ IsPercentileVariable(data[i].variable)
        /\ Len(InputOf(i).rows) = 2
        /\ InputOf(i).rows[1] = Row(<<10, 12, 11, 13, 14>>)
        /\ OutputOf(i).rows[1] = <<Q(104, 10), R(12), Q(136, 10)>>
        /\ OutputOf(i).rows[2] = <<Q(204, 10), R(22), Q(236, 10)>>

\* a cloud cover of x percent lies nearest to k eighths, the even one of two
\* equally near
HasOcta(x, k) ==
    LET twice == 2 * Abs(8 * x[1] - 100 * k * x[2])
    IN  \/ twice < 100 * x[2]
        \/ twice = 100 * x[2] /\ k % 2 = 0

Digits == <<"0", "1", "2", "3", "4", "5", "6", "7", "8">>

OctaColumn(k) == "octa_" \o Digits[k + 1] \o "_prob"

\* C11: the octa distribution of a non-empty member table has the nine
\* columns octa_0_prob .. octa_8_prob, a row for every row of the input,
\* and in each of them the fraction of the row's reporting members whose
\* octa is k (undefined when no member reports); zeros [0,0,0,0,0] give
\* octa_0_prob = 1 and the others 0, and [8,7,6,5,4] give 0.2 for octa_4 to
\* octa_8 and 0 for octa_0 to octa_3.
C11_OctaFractions ==
    \A i \in 1..Len(data) :
        (Processed(i) /\ data[i].variable = "cloud_cover" /\ ~Empty(InputOf(i)))
        => /\ OutputOf(i).columns = [k \in 1..9 |-> OctaColumn(k - 1)]
           /\ OutputOf(i).index = InputOf(i).index
           /\ Len(OutputOf(i).rows) = Len(InputOf(i).rows)
           /\ \A r \in 1..Len(InputOf(i).rows), k \in 0..8 :
                LET row == InputOf(i).rows[r]
                    equal == {c \in Present(row) : HasOcta(row[c], k)}
                    p == Cell(OutputOf(i), r, OctaColumn(k))
                IN  IF Present(row) = {} THEN IsNaN(p)
                    ELSE /\ ~IsNaN(p)
                         /\ Mul(p, R(Cardinality(Present(row)))) = R(Cardinality(equal))
           /\ \A r \in 1..Len(InputOf(i).rows) :
                /\ InputOf(i).rows[r] = Row(<<0, 0, 0, 0, 0>>)
                   => OutputOf(i).rows[r] = Row(<<1, 0, 0, 0, 0, 0, 0, 0, 0>>)
                /\ InputOf(i).rows[r] = Row(<<100, 88, 75, 63, 50>>)
                   => OutputOf(i).rows[r] =
                          <<R(0), R(0), R(0), R(0), Q(1, 5), Q(1, 5), Q(1, 5), Q(1, 5), Q(1, 5)>>

\* the table of the scenario: a row of five clear members and a row whose
\* members map to the octas 8, 7, 6, 5, 4
C11_Witness ==
    \E i \in 1..Len(data) :
        /\ Processed(i) /\ data[i].variable = "cloud_cover"
        /\ Len(InputOf(i).rows) = 2
        /\ InputOf(i).rows[1] = Row(<<0, 0, 0, 0, 0>>)
        /\ InputOf(i).rows[2] = Row(<<100, 88, 75, 63, 50>>)
        /\ Cell(OutputOf(i), 1, "octa_0_prob") = R(1)
        /\ Cell(OutputOf(i), 2, "octa_4_prob") = Q(1, 5)
        /\ Cell(OutputOf(i), 2, "octa_3_prob") = R(0)

Fog == {10, 11, 12, 28} \cup (40..49)
Storm == {13, 17, 29, 95, 96, 98}
SevereStorm == {18, 19, 97, 99}

\* the members of a row whose weather code lies in a set of codes
MembersIn(row, codes) ==
    {c \in 1..Len(row) : \E code \in codes : row[c] = R(code)}

\* C12: the hazard table of a non-empty member table has the columns
\* fog_prob, storm_prob, severe_storm_prob, each the fraction of the row's
\* members whose code lies in Fog, Storm, SevereStorm; the three sets are
\* pairwise disjoint, a row of codes outside all of them has three zeros,
\* and the three probabilities of a row sum to at most 1.
C12_HazardFractions ==
    /\ fog_codes = Fog /\ storm_codes = Storm /\ severe_storm_codes = SevereStorm
    /\ fog_codes \cap storm_codes = {}
    /\ fog_codes \cap severe_storm_codes = {}
    /\ storm_codes \cap severe_storm_codes = {}
    /\ \A i \in 1..Len(data) :
        (Processed(i) /\ data[i].variable = "weather_code" /\ ~Empty(InputOf(i)))
        => /\ OutputOf(i).columns = <<"fog_prob", "storm_prob", "severe_storm_prob">>
           /\ OutputOf(i).index = InputOf(i).index
           /\ \A r \in 1..Len(InputOf(i).rows) :
                LET row == InputOf(i).rows[r]
                    members == R(Len(row))
                    out == OutputOf(i).rows[r]
                IN  /\ Mul(Cell(OutputOf(i), r, "fog_prob"), members)
                         = R(Cardinality(MembersIn(row, Fog)))
                    /\ Mul(Cell(OutputOf(i), r, "storm_prob"), members)
                         = R(Cardinality(MembersIn(row, Storm)))
                    /\ Mul(Cell(OutputOf(i), r, "severe_storm_prob"), members)
                         = R(Cardinality(MembersIn(row, SevereStorm)))
                    /\ Leq(SumSeq(out), R(1))
                    /\ MembersIn(row, Fog \cup Storm \cup SevereStorm) = {}
                       => out = <<R(0), R(0), R(0)>>

\* a row with a member in fog, one in a storm, one in a severe storm and one
\* with a code of no hazard
C12_Witness ==
    \E i \in 1..Len(data) :
        /\ Processed(i) /\ data[i].variable = "weather_code"
        /\ \E r \in 1..Len(OutputOf(i).rows) :
             /\ Len(InputOf(i).rows[r]) = 4
             /\ OutputOf(i).rows[r] = <<Q(1, 4), Q(1, 4), Q(1, 4)>>
             /\ \E c \in 1..4 : InputOf(i).rows[r][c] = R(3)

----------------------------------------------------------------------------
(* Properties of the ensemble *)

\* the tables of model k that are not None
TablesOf(k) ==
    {j \in 1..Len(models[k]) : ~IsNone(models[k][j].df)}

\* the values model k has in the ensemble column col at the instant t
ValuesOf(k, t, col) ==
    {v \in UNION {{Cell(models[k][j].df, r, c) :
                      r \in {x \in 1..Len(models[k][j].df.index) :
                                models[k][j].df.index[x] = t},
                      c \in {y \in Range(models[k][j].df.columns) :
                                models[k][j].variable \o "_" \o y = col}} :
                  j \in TablesOf(k)} : ~IsNaN(v)}

\* the models with a defined value at (t, col)
Suppliers(t, col) == {k \in 1..Len(models) : ValuesOf(k, t, col) # {}}

RECURSIVE SumOfSuppliers(_, _, _)
SumOfSuppliers(S, t, col) ==
    IF S = {} THEN R(0)
    ELSE LET k == CHOOSE x \in S : TRUE
         IN  Add(CHOOSE v \in ValuesOf(k, t, col) : TRUE, SumOfSuppliers(S \ {k}, t, col))

\* C2: every cell of the ensemble table is the arithmetic mean of that cell
\* over exactly the models with a defined value at its timestamp and column;
\* a model without the column, the timestamp or a value is not counted, and
\* the cell is missing when no model has a value
C2_MeanOverSuppliers ==
    built =>
        \A r \in 1..Len(stats_df.index), c \in 1..Len(stats_df.columns) :
            LET t == stats_df.index[r]
                col == stats_df.columns[c]
                S == Suppliers(t, col)
            IN  IF S = {} THEN IsNaN(stats_df.rows[r][c])
                ELSE /\ ~IsNaN(stats_df.rows[r][c])
                     /\ Mul(stats_df.rows[r][c], R(Cardinality(S))) = SumOfSuppliers(S, t, col)

\* two models, a cell only one of them supplies although the other has a
\* table, and a cell both supply with different values
C2_Witness ==
    /\ built
    /\ Len(models) = 2
    /\ \E r \in 1..Len(stats_df.index), c \in 1..Len(stats_df.columns) :
         /\ Cardinality(Suppliers(stats_df.index[r], stats_df.columns[c])) = 1
         /\ Gt(stats_df.rows[r][c], R(0))
    /\ \E r \in 1..Len(stats_df.index), c \in 1..Len(stats_df.columns) :
         /\ Suppliers(stats_df.index[r], stats_df.columns[c]) = {1, 2}
         /\ ValuesOf(1, stats_df.index[r], stats_df.columns[c])
              # ValuesOf(2, stats_df.index[r], stats_df.columns[c])
    /\ TablesOf(1) # {} /\ TablesOf(2) # {}

\* the timestamps of the aggregation: those of any table of any model
AggregatedTimestamps ==
    UNION {UNION {Range(models[k][j].df.index) : j \in TablesOf(k)} : k \in 1..Len(models)}

\* the current time floored to the hour in the configured timezone: the
\* latest instant up to now that shows a full hour there
T == CHOOSE t \in (now - 1)..now : (t + UtcOffset(config.timezone)) % 2 = 0

horizon == 2 * config.forecast_hours

StrictlyIncreasing(seq) == \A i \in 1..(Len(seq) - 1) : seq[i] < seq[i + 1]

\* C3: the table of a constructed Ensemble has one row for each aggregated
\* timestamp t with T <= t <= T + forecast_hours, both bounds included, and
\* no other row
C3_ExactlyTheWindow ==
    built =>
        /\ Range(stats_df.index) = {t \in AggregatedTimestamps : T <= t /\ t <= T + horizon}
        /\ StrictlyIncreasing(stats_df.index)
        /\ Len(stats_df.rows) = Len(stats_df.index)

\* the models' data extends beyond the window on both sides, the rows at T
\* and at T + forecast_hours are kept, and now is not on the hour
C3_Witness ==
    /\ built
    /\ now # T
    /\ \E t \in AggregatedTimestamps : t < T
    /\ \E t \in AggregatedTimestamps : t > T + horizon
    /\ T \in Range(stats_df.index)
    /\ (T + horizon) \in Range(stats_df.index)

\* the models with a table that has a row
Contributors ==
    {k \in 1..Len(models) : \E j \in TablesOf(k) : Len(models[k][j].df.index) > 0}

\* the ensemble columns model k has in a table with a row
WideColumns(k) ==
    UNION {{models[k][j].variable \o "_" \o c : c \in Range(models[k][j].df.columns)} :
           j \in {x \in TablesOf(k) : Len(models[k][x].df.index) > 0}}

WideTimestamps(k) == UNION {Range(models[k][j].df.index) : j \in TablesOf(k)}

\* the cell of model k's wide table at the instant t in the column col:
\* the value of the variable's table there, missing if it has no row at t
WideCell(k, t, col) ==
    LET found == UNION {{Cell(models[k][j].df, r, c) :
                            r \in {x \in 1..Len(models[k][j].df.index) :
                                      models[k][j].df.index[x] = t},
                            c \in {y \in Range(models[k][j].df.columns) :
                                      models[k][j].variable \o "_" \o y = col}} :
                        j \in TablesOf(k)}
    IN  IF found = {} THEN NaN ELSE CHOOSE v \in found : TRUE

\* C13: when exactly one model contributes, the table of the Ensemble has
\* that model's columns and, at every timestamp of the model inside the
\* forecast window, that model's own row: each cell is the model's value,
\* missing where the model's is missing.
C13_SingleModelUnchanged ==
    (built /\ Cardinality(Contributors) = 1)
    => LET k == CHOOSE x \in Contributors : TRUE
       IN  /\ Range(stats_df.columns) = WideColumns(k)
           /\ Len(stats_df.columns) = Cardinality(WideColumns(k))
           /\ Range(stats_df.index) =
                  {t \in WideTimestamps(k) : T <= t /\ t <= T + horizon}
           /\ \A r \in 1..Len(stats_df.index), c \in 1..Len(stats_df.columns) :
                stats_df.rows[r][c] = WideCell(k, stats_df.index[r], stats_df.columns[c])

\* two models of which only the second has tables with rows, two variables
\* with different timestamps, and a fractional value in the window
C13_Witness ==
    /\ built
    /\ Len(models) = 2
    /\ Contributors = {2}
    /\ TablesOf(1) # {}
    /\ Len(stats_df.index) >= 2
    /\ Len(stats_df.columns) = 5
    /\ \E r \in 1..Len(stats_df.index) : \E c \in 1..5 : IsNaN(stats_df.rows[r][c])
    /\ \E r \in 1..Len(stats_df.index) : \E c \in 1..5 : stats_df.rows[r][c] = Q(1, 2)

\* the instant the i-th index entry of a table denotes: its time taken as
\* UTC when the index has no zone, else the time in its zone
InstantOf(df, i) ==
    IF df.tz = "naive" THEN df.index[i] ELSE df.index[i] - UtcOffset(df.tz)

\* the values model k has for the ensemble column col at the instant t
ValuesAtInstant(k, t, col) ==
    {v \in UNION {{Cell(models[k][j].df, r, c) :
                      r \in {x \in 1..Len(models[k][j].df.index) :
                                InstantOf(models[k][j].df, x) = t},
                      c \in {y \in Range(models[k][j].df.columns) :
                                models[k][j].variable \o "_" \o y = col}} :
                  j \in TablesOf(k)} : ~IsNaN(v)}

SuppliersAtInstant(t, col) ==
    {k \in 1..Len(models) : ValuesAtInstant(k, t, col) # {}}

RECURSIVE SumAtInstant(_, _, _)
SumAtInstant(S, t, col) ==
    IF S = {} THEN R(0)
    ELSE LET k == CHOOSE x \in S : TRUE
         IN  Add(CHOOSE v \in ValuesAtInstant(k, t, col) : TRUE,
                 SumAtInstant(S \ {k}, t, col))

\* the instants of the tables the models hold
Instants ==
    UNION {UNION {{InstantOf(models[k][j].df, i) : i \in 1..Len(models[k][j].df.index)} :
                  j \in TablesOf(k)} : k \in 1..Len(models)}

\* the construction of an Ensemble from the models as they are handed over
Construction == ~built /\ built'

\* C14: constructing the Ensemble leaves every model table with a UTC index
\* showing the instants its index denoted before (a zone-less index taken as
\* UTC, a zoned one converted), and the rows of all models that denote the
\* same instant make one row of the ensemble table, whose cells are the means
\* over the models with a value at that instant, whatever zone each carried.
C14_AlignedByInstant ==
    [][Construction =>
        /\ \A k \in 1..Len(models) : \A j \in TablesOf(k) :
             IsDatetimeIndex(models[k][j].df)
             => /\ models'[k][j].df.tz = "UTC"
                /\ models'[k][j].df.index =
                       [i \in 1..Len(models[k][j].df.index) |-> InstantOf(models[k][j].df, i)]
                /\ models'[k][j].df.rows = models[k][j].df.rows
        /\ \A t \in Instants :
             (T <= t /\ t <= T + horizon)
             => Cardinality({r \in 1..Len(stats_df'.index) : stats_df'.index[r] = t}) = 1
        /\ Range(stats_df'.index) \subseteq Instants
        /\ \A r \in 1..Len(stats_df'.index), c \in 1..Len(stats_df'.columns) :
             LET S == SuppliersAtInstant(stats_df'.index[r], stats_df'.columns[c])
             IN  IF S = {} THEN IsNaN(stats_df'.rows[r][c])
                 ELSE Mul(stats_df'.rows[r][c], R(Cardinality(S)))
                          = SumAtInstant(S, stats_df'.index[r], stats_df'.columns[c])
    ]_vars

\* the row <<5, 6, 7>> is the one the table with the Asia/Kolkata index shows
\* at 07:30 local time, <<1, 2, 3>> the one a UTC or zone-less table shows at
\* 02:00: both denote the instant 4 and are averaged in one row
C14_Witness ==
    /\ built
    /\ Len(models) = 2
    /\ \E j \in TablesOf(1) :
         /\ models[1][j].df.index = <<4, 6>>
         /\ models[1][j].df.rows[1] = <<R(5), R(6), R(7)>>
    /\ \E j \in TablesOf(2) :
         /\ models[2][j].variable = "temperature_2m"
         /\ models[2][j].df.index = <<4, 6>>
         /\ models[2][j].df.rows[1] = <<R(1), R(2), R(3)>>
    /\ \E r \in 1..Len(stats_df.index) :
         /\ stats_df.index[r] = 4
         /\ stats_df.rows[r] = <<R(3), R(4), R(5)>>

----------------------------------------------------------------------------
(* Properties of the exports *)

\* the warning an export emits for an empty table
EmptyWarning(op) ==
    IF op = "to_csv" THEN Log("warning", "No ensemble statistics to export.")
    ELSE IF op = "save_to_db"
    THEN Log("warning", "No ensemble statistics to save to the database.")
    ELSE Log("warning", "No ensemble statistics to plot.")

\* C15: with no contributing model (an empty list, or no model holding a
\* table with a row) the constructed Ensemble holds an empty table, nothing
\* has raised, and every export called on it has written nothing and has
\* emitted its warning, and nothing else.
C15_NoModelsNoOutput ==
    (built /\ Contributors = {})
    => /\ Empty(stats_df)
       /\ stats_df.index = <<>>
       /\ ~raised
       /\ written = {}
       /\ logged = {EmptyWarning(op) : op \in called}
       /\ Cardinality(logged) = Cardinality(called)

\* two models, one without statistics and one with an entry that holds no
\* row, and all three exports called
C15_Witness ==
    /\ built
    /\ Len(models) = 2
    /\ Contributors = {}
    /\ \E k \in 1..2 : models[k] # <<>>
    /\ \E k \in 1..2 : models[k] = <<>>
    /\ called = {"to_csv", "save_to_db", "plot_statistics"}
    /\ written = {}
    /\ Cardinality(logged) = 3

\* a call of an export of the constructed Ensemble
Exporting == built /\ called' # called

\* C20: constructing the Ensemble leaves the statistics tables of every model
\* (values and index) as they were, and the exports of the Ensemble (to_csv,
\* save_to_db, plot_statistics) leave its table (values and index) as it was.
C20_TablesNotMutated ==
    [][/\ Construction => models' = models
       /\ Exporting => stats_df' = stats_df
      ]_vars

----------------------------------------------------------------------------
(* Properties of the wide table of a model *)

\* the entries of self.statistics that hold a table
Tables == {i \in 1..Len(statistics) : ~IsNone(statistics[i].df)}

\* the wide table export_statistics_to_csv has joined and handed to the
\* formatter
Joined == formatted /\ "export_statistics_to_csv" \in called

\* the value the tables hold for the wide column col at the timestamp t,
\* missing if the variable has no row at t
TableCell(t, col) ==
    LET found == UNION {{Cell(statistics[i].df, r, c) :
                            r \in {x \in 1..Len(statistics[i].df.index) :
                                      statistics[i].df.index[x] = t},
                            c \in {y \in Range(statistics[i].df.columns) :
                                      statistics[i].variable \o "_" \o y = col}} :
                        i \in Tables}
    IN  IF found = {} THEN NaN ELSE CHOOSE v \in found : TRUE

\* C16: the wide table of a model has every timestamp of at least one
\* variable's table, every column of every variable's table under the name
\* {variable}_{statistic}, and in each cell the variable's value at that
\* timestamp, missing (never zero) where the variable has none.
C16_WideTableComplete ==
    Joined
    => /\ Range(fmt_in.index) = UNION {Range(statistics[i].df.index) : i \in Tables}
       /\ Range(fmt_in.columns) =
              UNION {{statistics[i].variable \o "_" \o c : c \in Range(statistics[i].df.columns)} :
                     i \in Tables}
       /\ \A r \in 1..Len(fmt_in.index), c \in 1..Len(fmt_in.columns) :
              fmt_in.rows[r][c] = TableCell(fmt_in.index[r], fmt_in.columns[c])

----------------------------------------------------------------------------
(* Properties of the formatter *)

\* every cell of column c is a number or a missing value, none a text
IsNumericColumn(df, c) == \A r \in 1..Len(df.rows) : Len(df.rows[r][c]) # 1

IsPrecipitationProbability(col) ==
    startswith(col, "precipitation") /\ endswith(col, "_probability")

\* x is a multiple of 1/20
IsMultipleOfTwentieth(x) == 20 % x[2] = 0

\* C4 as stated: a numeric column whose name starts with 'precipitation' and
\* ends with '_probability' is rounded up to the nearest multiple of 0.05, so
\* the formatted probability is never smaller than the unformatted one.
C4_ProbabilityRoundedUp ==
    formatted =>
        \A c \in 1..Len(fmt_in.columns) :
            (IsPrecipitationProbability(fmt_in.columns[c]) /\ IsNumericColumn(fmt_in, c)) =>
                \A r \in 1..Len(fmt_in.rows) :
                    LET x == fmt_in.rows[r][c]
                        y == fmt_out.rows[r][c]
                    IN  ~IsNaN(x) =>
                            /\ Leq(x, y)
                            /\ IsMultipleOfTwentieth(y)
                            /\ Lt(Sub(y, x), Q(1, 20))

\* the number of decimals the rules give a numeric column, first match first
Decimals(col) ==
    IF Len(col) >= 11 /\ SubSeq(col, 1, 11) = "cloud_cover"
    THEN (IF \E i \in 1..(Len(col) - 3) : SubSeq(col, i, i + 3) = "prob" THEN 2 ELSE 0)
    ELSE IF \E i \in 1..(Len(col) - 3) : SubSeq(col, i, i + 3) = "prob" THEN 2
    ELSE 1

\* y is x rounded to d decimals: a multiple of 10^-d at most half a unit
\* from x, the even one when x lies half way; a missing value stays missing
RoundedTo(y, x, d) ==
    IF IsNaN(x) THEN IsNaN(y)
    ELSE LET unit == IF d = 0 THEN 1 ELSE IF d = 1 THEN 10 ELSE 100
             n == Floor(Mul(y, R(unit)))
             twice == Mul(R(2), Sub(Mul(x, R(unit)), R(n)))
         IN  /\ ~IsNaN(y)
             /\ Mul(y, R(unit)) = R(n)
             /\ Leq(R(-1), twice) /\ Leq(twice, R(1))
             /\ (twice = R(1) \/ twice = R(-1)) => n % 2 = 0

Reformatting == formatted /\ fmt_in' = fmt_out

\* C18: formatting a table the formatter has returned gives the same table
\* again, in every column.
C18_Idempotent ==
    [][Reformatting => fmt_out' = fmt_out]_vars

\* a table whose formatting changed cells in a column rounded to 2 decimals,
\* one rounded to 1 decimal, or one rounded to a whole number, has been
\* formatted again
C18_Witness ==
    /\ formatted
    /\ fmt_in = fmt_out
    /\ Len(fmt_out.rows) = 1 /\ Len(fmt_out.columns) = 2
    /\ fmt_out.columns[1] = "cloud_cover_mean"
    /\ fmt_out.rows[1][1] = R(7)
    /\ fmt_out.columns[2] = "precipitation_probability"
    /\ fmt_out.rows[1][2] = Q(33, 100)

\* C19: a call of the formatter leaves every cell, the index and the columns
\* of the table passed to it as they were; the result is another table.
C19_InputUnchanged ==
    [][/\ (~formatted /\ formatted') => fmt_in' = fmt_in
       /\ Reformatting => fmt_in' = fmt_out
      ]_vars

\* the formatter has returned a table that differs from the one passed in,
\* which still holds the unrounded values
C19_Witness ==
    /\ formatted
    /\ fmt_out # fmt_in
    /\ \E r \in 1..Len(fmt_in.rows), c \in 1..Len(fmt_in.columns) :
         /\ fmt_in.rows[r][c] = Q(1, 3)
         /\ fmt_out.rows[r][c] = Q(3, 10)

----------------------------------------------------------------------------
(* Properties of calculate_statistics over a whole model *)

\* the variables of self.data whose statistic function returns a table
Computable ==
    {i \in 1..Len(data) :
        /\ ~IsNone(data[i].df)
        /\ ~Raises(statistics_of(data[i].variable, data[i].df))}

\* C21: when the statistic function of one variable raises, the statistics
\* of the model's other variables are still computed: once the failure has
\* happened, every other variable whose table can be processed has its
\* entry in self.statistics.
C21_FailureConfined ==
    raised =>
        \A i \in Computable : data[i].variable \in DOMAIN statistics

\* self.statistics.items(): the entries in the order they were inserted
StatisticsItems ==
    LET stored == SelectSeq(data, LAMBDA e : e.variable \in DOMAIN statistics)
    IN  [i \in 1..Len(stored) |->
            [variable |-> stored[i].variable, df |-> statistics[stored[i].variable]]]

\* the wide table of the model and the ensemble table of this model alone
WideTable == all_stats_df(EmptyFrame(<<>>), StatisticsItems)

EnsembleOfOne == _calculate_ensemble_stats(<<StatisticsItems>>)

\* table has no column of a variable without data, and every column and
\* every row label of the variables whose statistics have rows
BuiltFromRemaining(table) ==
    /\ \A i \in 1..Len(data) : IsNone(data[i].df) =>
           \A c \in 1..Len(table.columns) :
               ~startswith(table.columns[c], data[i].variable \o "_")
    /\ \A k \in 1..Len(StatisticsItems) :
           LET e == StatisticsItems[k]
           IN  ~Empty(e.df) =>
                   /\ Range(add_prefix(e.df, e.variable \o "_").columns)
                          \subseteq Range(table.columns)
                   /\ Range(e.df.index) \subseteq Range(table.index)

Returned == ~raised /\ cursor > Len(data)

\* C22: a variable whose table is None gets no entry in self.statistics and
\* does not stop the loop: the step over it only moves on, every variable
\* with data that the loop has passed has the statistics of its table, and
\* when calculate_statistics returns the wide table and the ensemble are
\* built from the variables that have statistics.
C22_NoDataOmitted ==
    /\ [](\A i \in 1..Len(data) :
               /\ IsNone(data[i].df) => data[i].variable \notin DOMAIN statistics
               /\ (i < cursor /\ ~IsNone(data[i].df)) =>
                      /\ data[i].variable \in DOMAIN statistics
                      /\ statistics[data[i].variable]
                             = statistics_of(data[i].variable, data[i].df))
    /\ [](Returned => (BuiltFromRemaining(WideTable) /\ BuiltFromRemaining(EnsembleOfOne)))
    /\ [][(InLoop /\ IsNone(data[cursor].df)) =>
              (cursor' = cursor + 1 /\ raised' = raised /\ statistics' = statistics)]_vars

\* calculate_statistics has returned for a dict whose first variable has no
\* data and whose second has a table with rows
C22_Witness ==
    /\ Returned
    /\ Len(data) = 2
    /\ IsNone(data[1].df)
    /\ ~IsNone(data[2].df)
    /\ data[2].variable \in DOMAIN statistics
    /\ ~Empty(statistics[data[2].variable])
    /\ WideTable.columns # <<>>

----------------------------------------------------------------------------
(* Properties of the last-run record *)

\* the metadata names a model and a run initialisation time
Complete(md) ==
    /\ "model" \in DOMAIN md
    /\ md.model # ""
    /\ "last_run_initialisation_time" \in DOMAIN md

\* no last run is recorded in the file for the model of md, or the run of md
\* is strictly later than the recorded one
NewerThanRecorded(file, md) ==
    \/ file = Missing
    \/ file = Undecodable
    \/ IsDict(file) /\ md.model \notin DOMAIN file
    \/ IsDict(file) /\ md.model \in DOMAIN file
           /\ md.last_run_initialisation_time > file[md.model]

\* the step in which the call of pipeline run p returns
Returns(p) == calls[p].pc # "done" /\ calls'[p].pc = "done"

\* the run time recorded for every model is kept or raised by the step
NeverDecreases ==
    IsDict(last_run_file) =>
        \A m \in DOMAIN last_run_file :
            /\ IsDict(last_run_file')
            /\ m \in DOMAIN last_run_file'
            /\ last_run_file'[m] >= last_run_file[m]

ReturnsTrueExactlyWhenNew(p) ==
    Returns(p) =>
        (calls'[p].result <=>
            (/\ Complete(calls'[p].model_metadata)
             /\ NewerThanRecorded(last_run_file, calls'[p].model_metadata)))

WritesNothingOnFalse(p) ==
    (Returns(p) /\ ~calls'[p].result) => last_run_file' = last_run_file

Recorded(file, md) ==
    /\ IsDict(file)
    /\ md.model \in DOMAIN file
    /\ file[md.model] = md.last_run_initialisation_time

\* C23 as stated: True exactly for a complete metadata whose run is not yet
\* recorded or strictly later than the recorded one; a call that returns
\* True has recorded the run, a call that returns False has written nothing,
\* the repeated call with the same metadata returns False, and no recorded
\* run time ever decreases.
C23_NewRunRecorded ==
    /\ [][\A p \in PipelineRuns :
              /\ ReturnsTrueExactlyWhenNew(p)
              /\ WritesNothingOnFalse(p)
              /\ (Returns(p) /\ calls'[p].result) =>
                     Recorded(last_run_file', calls'[p].model_metadata)]_vars
    /\ [][NeverDecreases]_vars
    /\ []((/\ calls[1].pc = "done"
           /\ calls[2].pc = "done"
           /\ calls[1].model_metadata = calls[2].model_metadata) => ~calls[2].result)

\* C23 amended: as C23, but a call that returns True has recorded the run
\* only if its write did not fail with IOError (a failed write leaves the
\* file as it was or undecodable and True is still returned); the repeated
\* call returns False unless the first returned True with a failed write;
\* no recorded run time decreases in a step without a failed write.
C23_NewRunRecordedUnlessWriteFails ==
    /\ [][\A p \in PipelineRuns :
              /\ ReturnsTrueExactlyWhenNew(p)
              /\ WritesNothingOnFalse(p)
              /\ (Returns(p) /\ calls'[p].result) =>
                     /\ calls'[p].wrote = "written" =>
                            /\ Recorded(last_run_file', calls'[p].model_metadata)
                            /\ NeverDecreases
                     /\ calls'[p].wrote = "failed" => last_run_file' = last_run_file
                     /\ calls'[p].wrote = "truncated" => last_run_file' = Undecodable
                     /\ calls'[p].wrote # "nothing"]_vars
    /\ [][(\A p \in PipelineRuns : ~Returns(p)) => last_run_file' = last_run_file]_vars
    /\ []((/\ calls[1].pc = "done"
           /\ calls[2].pc = "done"
           /\ calls[1].model_metadata = calls[2].model_metadata
           /\ ~(calls[1].result /\ calls[1].wrote # "written")) => ~calls[2].result)

\* a new run was recorded by the first call and the repeated call with the
\* same metadata has returned False
C23_Witness ==
    /\ calls[1].pc = "done"
    /\ calls[1].result
    /\ calls[1].wrote = "written"
    /\ calls[2].pc = "done"
    /\ calls[2].model_metadata = calls[1].model_metadata
    /\ ~calls[2].result
    /\ Recorded(last_run_file, calls[1].model_metadata)

\* the record file after a call with metadata md on the file alone
AfterCall(file, md) ==
    IF Complete(md) /\ NewerThanRecorded(file, md)
    THEN (md.model :> md.last_run_initialisation_time) @@ load(file)
    ELSE file

\* both pipeline runs have returned, they are for different models, and no
\* write has failed
BothReturned ==
    /\ \A p \in PipelineRuns :
          calls[p].pc = "done" /\ calls[p].wrote \notin {"failed", "truncated"}
    /\ Complete(calls[1].model_metadata)
    /\ Complete(calls[2].model_metadata)
    /\ calls[1].model_metadata.model # calls[2].model_metadata.model

\* C29: when the calls of two pipeline runs for different models overlap,
\* the record they leave is the one that the two calls leave when one runs
\* after the other, in one of the two orders; both new run times are in it.
C29_SerialRecord ==
    BothReturned =>
        \/ last_run_file = AfterCall(AfterCall(record0, calls[1].model_metadata),
                                     calls[2].model_metadata)
        \/ last_run_file = AfterCall(AfterCall(record0, calls[2].model_metadata),
                                     calls[1].model_metadata)

----------------------------------------------------------------------------
(* Properties of the percentiles of the ensemble *)

\* p10 <= median <= p90 in every row of every percentile table of model k
ModelOrdered(k) ==
    \A i \in 1..Len(models[k]) :
        LET e == models[k][i]
        IN  (IsPercentileVariable(e.variable) /\ ~IsNone(e.df)) =>
                \A r \in 1..Len(e.df.rows) : PercentilesOrdered(e.df, r)

\* the percentile variables that have columns in the ensemble table
EnsemblePercentileVariables ==
    {v \in Variables :
        /\ IsPercentileVariable(v)
        /\ {v \o "_p10", v \o "_median", v \o "_p90"} \subseteq Range(stats_df.columns)}

EnsembleRowOrdered(r, v) ==
    /\ Leq(Cell(stats_df, r, v \o "_p10"), Cell(stats_df, r, v \o "_median"))
    /\ Leq(Cell(stats_df, r, v \o "_median"), Cell(stats_df, r, v \o "_p90"))

EnsembleRowMissing(r, v) ==
    /\ IsNaN(Cell(stats_df, r, v \o "_p10"))
    /\ IsNaN(Cell(stats_df, r, v \o "_median"))
    /\ IsNaN(Cell(stats_df, r, v \o "_p90"))

\* C30 as stated: when every row of every percentile table of every model is
\* ordered, p10 <= median <= p90 holds in every row of the ensemble table
\* for each percentile variable.
C30_EnsembleOrdered ==
    (built /\ \A k \in 1..Len(models) : ModelOrdered(k)) =>
        \A v \in EnsemblePercentileVariables :
            \A r \in 1..Len(stats_df.rows) : EnsembleRowOrdered(r, v)

\* C30 amended: under the same condition every row of the ensemble table
\* either is ordered, p10 <= median <= p90, or holds no value in any of the
\* three columns (a timestamp for which no model supplies the variable).
C30_EnsembleOrderedWhereSupplied ==
    (built /\ \A k \in 1..Len(models) : ModelOrdered(k)) =>
        \A v \in EnsemblePercentileVariables :
            \A r \in 1..Len(stats_df.rows) :
                EnsembleRowOrdered(r, v) \/ EnsembleRowMissing(r, v)

\* two ordered models supply different percentiles for one timestamp of the
\* ensemble table, whose row is strictly ordered
C30_Witness ==
    /\ built
    /\ Len(models) = 2
    /\ ModelOrdered(1) /\ ModelOrdered(2)
    /\ \E r \in 1..Len(stats_df.rows) :
         /\ "temperature_2m" \in EnsemblePercentileVariables
         /\ Suppliers(stats_df.index[r], "temperature_2m_median") = {1, 2}
         /\ ValuesOf(1, stats_df.index[r], "temperature_2m_median")
              # ValuesOf(2, stats_df.index[r], "temperature_2m_median")
         /\ Lt(Cell(stats_df, r, "temperature_2m_p10"), Cell(stats_df, r, "temperature_2m_median"))
         /\ Lt(Cell(stats_df, r, "temperature_2m_median"), Cell(stats_df, r, "temperature_2m_p90"))

----------------------------------------------------------------------------
(* Properties of the database *)

\* the step in which purge_old_runs runs
Purging == purge = <<>> /\ purge' # <<>>

\* a row of a run older than now minus retention_days
OlderThanCutoff(row) == row.run_timestamp < clock - purge'[1].retention_days * Day

NotOlder(rows) == SelectSeq(rows, LAMBDA row : ~OlderThanCutoff(row))

----------------------------------------------------------------------------
(* Properties of the round trip through the database *)

\* the value of the table at the instant t in the column called name
CellAt(df, t, name) ==
    df.rows[CHOOSE r \in 1..Len(df.index) : timestamp(df, r) = t]
           [CHOOSE c \in 1..Len(df.columns) : df.columns[c] = name]

InstantsOf(df) == {timestamp(df, r) : r \in 1..Len(df.index)}

\* the table has the timestamps, the column names and the values of saved
SameTable(saved, loaded) ==
    /\ loaded.index = [r \in 1..Len(saved.index) |-> timestamp(saved, r)]
    /\ Range(loaded.columns) = Range(saved.columns)
    /\ \A t \in InstantsOf(saved) : \A name \in Range(saved.columns) :
           CellAt(loaded, t, name) = CellAt(saved, t, name)

\* every table of the saved dict has come back as it was
AllReturned(saved, loaded) ==
    \A i \in 1..Len(saved) :
        ~IsNone(saved[i].df) =>
            /\ saved[i].variable \in DOMAIN loaded
            /\ SameTable(saved[i].df, loaded[saved[i].variable])

\* C25 Round trip: after save_forecast_run, save_raw_data and save_statistics
\* have stored the tables of a run and the run is loaded, load_raw_data and
\* load_statistics return for every variable a table with the same
\* timestamps, the same column names and the same values as the one saved.
C25_RoundTrip ==
    \A p \in DOMAIN session :
        session[p].pc = "loaded" =>
            /\ AllReturned(session[p].raw_data, session[p].loaded_raw)
            /\ AllReturned(session[p].statistics_data, session[p].loaded_stats)

\* the rows and the columns of a table that hold at least one value
RowsWithValue(df) ==
    {r \in 1..Len(df.index) : \E c \in 1..Len(df.columns) : ~IsNaN(df.rows[r][c])}

ColumnsWithValue(df) ==
    {c \in 1..Len(df.columns) : \E r \in 1..Len(df.index) : ~IsNaN(df.rows[r][c])}

\* the digits a name ends with
RECURSIVE TrailingDigits(_)
TrailingDigits(name) ==
    IF name = "" \/ ~IsDigit(SubSeq(name, Len(name), Len(name))) THEN ""
    ELSE TrailingDigits(SubSeq(name, 1, Len(name) - 1)) \o SubSeq(name, Len(name), Len(name))

MemberName(column) == "member" \o TrailingDigits(column)

\* the name under which a saved column is expected back: a member column
\* (kind "member") as member<N>, a statistics column as it is
Renamed(kind, column) == IF kind = "member" THEN MemberName(column) ELSE column

\* the table holds the rows and columns of saved that hold a value, the
\* columns renamed as their kind says, under naive timestamps
SameValues(saved, loaded, kind) ==
    /\ loaded.tz = "naive"
    /\ Range(loaded.index) = {timestamp(saved, r) : r \in RowsWithValue(saved)}
    /\ Range(loaded.columns) =
           {Renamed(kind, saved.columns[c]) : c \in ColumnsWithValue(saved)}
    /\ \A r \in RowsWithValue(saved) : \A c \in ColumnsWithValue(saved) :
           CellAt(loaded, timestamp(saved, r), Renamed(kind, saved.columns[c]))
               = saved.rows[r][c]

\* the loaded dict has a table for exactly the variables saved with a value
ValuesReturned(saved, loaded, kind) ==
    /\ DOMAIN loaded =
           {saved[i].variable :
               i \in {j \in 1..Len(saved) :
                         ~IsNone(saved[j].df) /\ RowsWithValue(saved[j].df) # {}}}
    /\ \A i \in 1..Len(saved) :
           saved[i].variable \in DOMAIN loaded =>
               SameValues(saved[i].df, loaded[saved[i].variable], kind)

\* C25 amended: the loads return a table for every variable whose saved
\* table holds at least one value, and for no other; the table has the
\* instants of the saved rows that hold a value as naive timestamps, the
\* saved columns that hold a value, and the saved values in them, missing
\* where the saved one was missing; a member column comes back under the
\* name 'member' followed by the member number its saved name ends with.
C25_RoundTripOfValues ==
    \A p \in DOMAIN session :
        session[p].pc = "loaded" =>
            /\ ValuesReturned(session[p].raw_data, session[p].loaded_raw, "member")
            /\ ValuesReturned(session[p].statistics_data, session[p].loaded_stats, "statistic")

\* a run was loaded whose member table has two rows with values, members
\* named by the API, a missing value, and statistics
C25_Witness ==
    \E p \in DOMAIN session :
        /\ session[p].pc = "loaded"
        /\ "temperature_2m" \in DOMAIN session[p].loaded_raw
        /\ session[p].loaded_raw["temperature_2m"].columns = <<"member0", "member1">>
        /\ Len(session[p].loaded_raw["temperature_2m"].index) = 2
        /\ \E r \in 1..2 : IsNaN(session[p].loaded_raw["temperature_2m"].rows[r][1])
        /\ "temperature_2m" \in DOMAIN session[p].loaded_stats

----------------------------------------------------------------------------
(* Properties of the construction of a WeatherModel *)

\* the last object constructed and the step that constructs it
Constructing == Len(wms') = Len(wms) + 1

Constructed == wms'[Len(wms')]

\* the construction downloaded the run, computed its statistics and went
\* through save_to_db
HandledNewRun(w) == w.new /\ w.downloaded /\ ~w.raised

\* the run times recorded for a model
RecordedRuns(d, model_name) ==
    {d.forecast_runs[i].run_timestamp :
        i \in {j \in 1..Len(d.forecast_runs) : d.forecast_runs[j].model_name = model_name}}

\* the tables of a dict by variable
TableOf(dict, variable) ==
    dict[CHOOSE i \in 1..Len(dict) : dict[i].variable = variable].df

\* the dict holds every value of the tables of saved, and under the same
\* instant
HoldsValuesOf(dict, saved) ==
    \A i \in 1..Len(saved) :
        (~IsNone(saved[i].df) /\ RowsWithValue(saved[i].df) # {}) =>
            /\ \E k \in 1..Len(dict) : dict[k].variable = saved[i].variable
            /\ SameValues(saved[i].df, TableOf(dict, saved[i].variable), "member")

\* a later construction for the same model and metadata finds the run
\* recorded and takes it from the database
LoadedInsteadOfDownloaded(first, again) ==
    /\ ~again.new
    /\ ~again.downloaded
    /\ HoldsValuesOf(again.data, first.data)

\* check_if_new is True only for a run that is strictly later than the
\* latest recorded one of the model, or when none is recorded
NewOnlyIfLater ==
    (Constructing /\ Constructed.new) =>
        \A t \in RecordedRuns(db, Constructed.name) :
            Constructed.metadata.last_run_initialisation_time > t

\* C26: once a construction has handled a run that check_if_new reported as
\* new, a construction for the same model with the same metadata finds
\* check_if_new False and loads the run from the database instead of
\* downloading it again; check_if_new is True only for a run strictly later
\* than the latest recorded one of the model, or when none is recorded.
C26_DownloadedOnce ==
    /\ [](\A i \in DOMAIN wms : \A j \in DOMAIN wms :
             (/\ i < j
              /\ HandledNewRun(wms[i])
              /\ wms[j].name = wms[i].name
              /\ wms[j].metadata = wms[i].metadata) =>
                 LoadedInsteadOfDownloaded(wms[i], wms[j]))
    /\ [][NewOnlyIfLater]_vars

\* the run's availability time is less than ten minutes in the past
TooRecent(w) ==
    /\ w.new
    /\ ~Lacks(w.metadata, "last_run_availability_time")
    /\ w.at - w.metadata.last_run_availability_time < TenMinutes

\* the run's initialisation time is more than one day in the past
TooOld(w) ==
    /\ w.new
    /\ ~Lacks(w.metadata, "last_run_availability_time")
    /\ ~TooRecent(w)
    /\ w.at - w.metadata.last_run_initialisation_time > Day

\* the dict holds a table for some variable
HoldsData(w) == \E i \in 1..Len(w.data) : ~IsNone(w.data[i].df)

\* the column a stored row belongs to
ColumnOf(kind, row) == IF kind = "member" THEN "member" \o row.member ELSE row.statistic

\* the tables of the dict hold exactly the values of the rows, each under
\* its variable, its instant and the column of its member or statistic
HoldsRows(dict, rows, kind) ==
    /\ \A k \in 1..Len(rows) :
           \E i \in 1..Len(dict) :
               /\ dict[i].variable = rows[k].variable
               /\ rows[k].forecast_timestamp \in Range(dict[i].df.index)
               /\ ColumnOf(kind, rows[k]) \in Range(dict[i].df.columns)
               /\ CellAt(dict[i].df, rows[k].forecast_timestamp, ColumnOf(kind, rows[k]))
                      = rows[k].value
    /\ \A i \in 1..Len(dict) :
           \A r \in 1..Len(dict[i].df.index) : \A c \in 1..Len(dict[i].df.columns) :
               ~IsNaN(dict[i].df.rows[r][c]) =>
                   \E k \in 1..Len(rows) :
                       /\ rows[k].variable = dict[i].variable
                       /\ rows[k].forecast_timestamp = dict[i].df.index[r]
                       /\ ColumnOf(kind, rows[k]) = dict[i].df.columns[c]

\* the object holds what the database d stores for the latest run of its
\* model, and nothing if no run is stored
FromDatabase(w, d) ==
    IF RecordedRuns(d, w.name) = {} THEN w.data = <<>> /\ w.statistics = <<>>
    ELSE LET latest == CHOOSE t \in RecordedRuns(d, w.name) :
                           \A u \in RecordedRuns(d, w.name) : u <= t
         IN  /\ HoldsRows(w.data, OfRun(d.raw_forecast_data, w.name, latest), "member")
             /\ HoldsRows(w.statistics, OfRun(d.statistical_forecasts, w.name, latest),
                          "statistic")

\* what holds of an object at the end of its construction
AtEnd(w, d) ==
    /\ w.is_new => w.is_valid
    /\ w.is_new =>
           /\ w.new
           /\ ~Lacks(w.metadata, "last_run_availability_time")
           /\ w.at - w.metadata.last_run_availability_time >= TenMinutes
           /\ w.at - w.metadata.last_run_initialisation_time <= Day
    /\ ~w.is_new => ~w.downloaded
    /\ TooRecent(w) => FromDatabase(w, d)
    /\ TooOld(w) => ~w.is_valid /\ w.data = <<>>
    /\ w.is_valid => HoldsData(w)

----------------------------------------------------------------------------
(* Properties of WeatherModel.save_to_db *)

\* the step in which the save_to_db of process p ends its transaction
Saving(p) == session[p].pc = "begun" /\ session'[p].pc = "closed"

\* the rows are exactly the values of the tables of the dict, each under
\* its variable, its instant and its member or statistic
RowsOfTables(rows, dict, kind) ==
    /\ \A i \in 1..Len(dict) :
           ~IsNone(dict[i].df) =>
               \A r \in 1..Len(dict[i].df.index) : \A c \in 1..Len(dict[i].df.columns) :
                   ~IsNaN(dict[i].df.rows[r][c]) =>
                       \E k \in 1..Len(rows) :
                           /\ rows[k].variable = dict[i].variable
                           /\ rows[k].forecast_timestamp = timestamp(dict[i].df, r)
                           /\ ColumnOf(kind, rows[k]) = Renamed(kind, dict[i].df.columns[c])
                           /\ rows[k].value = dict[i].df.rows[r][c]
    /\ \A k \in 1..Len(rows) :
           \E i \in 1..Len(dict) :
               /\ dict[i].variable = rows[k].variable
               /\ ~IsNone(dict[i].df)
               /\ \E r \in 1..Len(dict[i].df.index) : \E c \in 1..Len(dict[i].df.columns) :
                      /\ rows[k].forecast_timestamp = timestamp(dict[i].df, r)
                      /\ ColumnOf(kind, rows[k]) = Renamed(kind, dict[i].df.columns[c])
                      /\ rows[k].value = dict[i].df.rows[r][c]

\* the rows of a table that do not belong to the run
OfOtherRuns(rows, model_name, run_timestamp) ==
    SelectSeq(rows, LAMBDA row :
        ~(row.model_name = model_name /\ row.run_timestamp = run_timestamp))

\* e is d with the run of w added: its forecast-run row, all its member
\* rows and all its statistics rows, and nothing else changed
CommittedTogether(d, e, w) ==
    LET run == w.metadata.last_run_initialisation_time
    IN  /\ OfRun(d.forecast_runs, w.name, run) = <<>>
        /\ e.forecast_runs = Append(d.forecast_runs, RunRow(w.name, run))
        /\ OfOtherRuns(e.raw_forecast_data, w.name, run) = d.raw_forecast_data
        /\ OfOtherRuns(e.statistical_forecasts, w.name, run) = d.statistical_forecasts
        /\ RowsOfTables(OfRun(e.raw_forecast_data, w.name, run), w.data, "member")
        /\ RowsOfTables(OfRun(e.statistical_forecasts, w.name, run), w.statistics,
                        "statistic")

OneRowPerRun ==
    \A i \in 1..Len(db.forecast_runs) : \A j \in 1..Len(db.forecast_runs) :
        db.forecast_runs[i] = db.forecast_runs[j] => i = j

====
